---- MODULE Spec2Model ----
(***************************************************************************)
(* Arise Plot Management API: token issuing and verification, the          *)
(* authorization gate, the country/zone topology check, the zone pin and   *)
(* the plot query / mutation / zone-registry operations over the document  *)
(* store.                                                                  *)
(*                                                                         *)
(* Time is counted in seconds since the epoch (UTC).  Strings the code     *)
(* only compares are TLA+ strings; str.lower() is the table Lower.         *)
(***************************************************************************)
EXTENDS Integers, Sequences, FiniteSets, TLC

VARIABLES now, tz, iatChecked, authOut, resp, store, zones, walk, calls, users

vars == <<now, tz, iatChecked, authOut, resp, store, zones, walk, calls, users>>

(***************************************************************************)
(* Bounds of the model                                                     *)
(***************************************************************************)
\* number of MAC bits of the signature the model distinguishes
MacBits == 2
\* number of plot documents seeded into the first partition
MaxDocs == 2
\* largest document key of a paged partition
MaxKeys == 5

\* the number of service calls of one execution
MaxCalls == 3

(***************************************************************************)
(* Configuration (app/core/config.py)                                      *)
(***************************************************************************)
JWT_SECRET_KEY == "your-jwt-secret-key-change-this-in-production"
JWT_ALGORITHM == "HS256"
JWT_EXPIRE_HOURS == 24
\* seconds in an hour (get_token_expiry_seconds, timedelta(hours=...))
SecondsPerHour == 3600
\* unused trailing bits of the base64url text of a 32-byte HS256 signature
\* (43 characters * 6 bits - 256 bits)
PadBits == 2

TTL == JWT_EXPIRE_HOURS * SecondsPerHour

\* AuthService.get_token_expiry_seconds
get_token_expiry_seconds == JWT_EXPIRE_HOURS * SecondsPerHour

(***************************************************************************)
(* Values                                                                  *)
(***************************************************************************)
\* Python None, as a tagged record so that it compares with every result
None == [tag |-> "None"]

Elems(s) == {s[i] : i \in DOMAIN s}

\* an optional string that was not supplied / a stored null (Python None)
Null == "null"

\* no client is paging through a partition
NoWalk == [active |-> FALSE]

\* no service call in flight, and an empty collection
NoCalls == <<>>
NoDocuments == <<>>

\* a service call that has not started: its position, its operation, its
\* request, what its read returned and the status it answered
IdleCall == [pc |-> "idle", op |-> "", request |-> None, seen |-> None,
             status |-> 0, value |-> None]

\* no request has been handled yet
IdleResponse ==
    [stage |-> "idle", op |-> "", token |-> None, verify |-> "",
     claim |-> None, steps |-> <<>>, status |-> 0, code |-> "",
     message |-> "", request |-> None, reads |-> {}, writes |-> {},
     body |-> None]

\* str.lower() on the strings the model uses
Lower(s) ==
    CASE s = "Gabon"      -> "gabon"
      [] s = "GABON"      -> "gabon"
      [] s = "Benin"      -> "benin"
      [] s = "Secret"     -> "secret"
      [] s = "SECRET"     -> "secret"
      [] s = "Bearer"     -> "bearer"
      [] s = "Available"  -> "available"
      [] s = "Occupied"   -> "occupied"
      [] s = "Allocated"  -> "allocated"
      [] s = "A@x.io"     -> "a@x.io"
      [] s = "B@x.io"     -> "b@x.io"
      [] s = "Reserved"   -> "reserved"
      [] s = "GSEZ-R-001" -> "gsez-r-001"
      [] s = "GSEZ-R-002" -> "gsez-r-002"
      [] s = "GSEZ-R-003" -> "gsez-r-003"
      [] s = "GDIZ-C-001" -> "gdiz-c-001"
      [] OTHER            -> s

\* schemas/auth.py UserRole
UserRole == {"super_admin", "zone_admin", "normal_user"}

\* role strings handed to get_permissions_for_role, the enum and others
RoleInputs == UserRole \cup {"invalid_role", "", "SUPER_ADMIN"}

UserIds == {"u1"}

\* zone codes a token request can carry (4-6 upper-case letters,
\* AuthTokenRequest.validate_zone_code)
TokenZones == {"GSEZ", "GDIZ"}

\* UTC offsets of the server's local time zone, in seconds
TZOffsets == {0 - SecondsPerHour, 0, SecondsPerHour}

\* instants the clock visits
Times == {0, 1, TTL - SecondsPerHour, TTL - 1, TTL, TTL + 1,
          TTL + SecondsPerHour}

\* instants at which the presented tokens were issued
IssueTimes == {0, 1}

(***************************************************************************)
(* PermissionTable                                                         *)
(***************************************************************************)
\* AuthService.PERMISSIONS_MAP
PERMISSIONS_MAP ==
    [r \in UserRole |->
        CASE r = "super_admin" -> [read  |-> <<"plots", "zones", "users">>,
                                   write |-> <<"plots", "zones", "users">>]
          [] r = "zone_admin"  -> [read  |-> <<"plots", "zones">>,
                                   write |-> <<"plots", "zones">>]
          [] r = "normal_user" -> [read  |-> <<"plots", "zones">>,
                                   write |-> <<>>]]

\* a lookup that falls back to the normal_user entry instead of the empty one
OpenPermissionsForRole(role) ==
    IF role \in DOMAIN PERMISSIONS_MAP
    THEN PERMISSIONS_MAP[role]
    ELSE PERMISSIONS_MAP["normal_user"]

\* AuthService.get_permissions_for_role: PERMISSIONS_MAP.get(role, empty)
get_permissions_for_role(role) ==
    IF role \in DOMAIN PERMISSIONS_MAP
    THEN PERMISSIONS_MAP[role]
    ELSE [read |-> <<>>, write |-> <<>>]

(***************************************************************************)
(* TokenIssuer                                                             *)
(***************************************************************************)
\* datetime.timestamp() of the naive datetime returned by datetime.utcnow():
\* the naive value carries the UTC wall clock of instant t, and timestamp()
\* reads a naive value as local time, so the epoch it returns is t - offset.
NaiveTimestamp(t, offset) == t - offset

\* HMAC-SHA256 over header.payload, as an ideal MAC: equal exactly when key,
\* header and payload are equal
HMAC(key, header, payload) == [k |-> key, h |-> header, p |-> payload]

\* the signature segment as text: the MAC (with the set of MAC bits that
\* were flipped) followed by the unused trailing bits of the last character
EncodeSig(mac) == [mac |-> mac, flipped |-> {}, pad |-> {}]

\* urlsafe_b64decode of the signature segment: the trailing bits are dropped
DecodeSig(sig) == [mac |-> sig.mac, flipped |-> sig.flipped]

\* jwt.encode
JwtEncode(payload, key, alg) ==
    LET header == [alg |-> alg, typ |-> "JWT"]
    IN  [wf |-> TRUE, header |-> header, payload |-> payload,
         sig |-> EncodeSig(HMAC(key, header, payload))]

\* an issuer that hands every role the super_admin permissions
OverPrivilegedToken(request, t, offset) ==
    JwtEncode([userId      |-> request.userId,
               role        |-> request.role,
               zone        |-> request.zone,
               permissions |-> PERMISSIONS_MAP["super_admin"],
               iat         |-> NaiveTimestamp(t, offset),
               exp         |-> NaiveTimestamp(t + TTL, offset)],
              JWT_SECRET_KEY, JWT_ALGORITHM)

\* AuthService.create_jwt_token, called at instant t on a server whose local
\* time is UTC + offset
create_jwt_token(request, t, offset) ==
    JwtEncode([userId      |-> request.userId,
               role        |-> request.role,
               zone        |-> request.zone,
               permissions |-> get_permissions_for_role(request.role),
               iat         |-> NaiveTimestamp(t, offset),
               exp         |-> NaiveTimestamp(t + TTL, offset)],
              JWT_SECRET_KEY, JWT_ALGORITHM)

(***************************************************************************)
(* TokenVerifier                                                           *)
(***************************************************************************)
JwtOk(payload) == [tag |-> "ok", payload |-> payload]
JwtError(exc) == [tag |-> "error", exc |-> exc]

\* a signature check that accepts whatever MAC the token carries
AnySignatureValid(token, key) == TRUE

\* the HMAC comparison of jwt.decode: the decoded signature bytes against the
\* MAC recomputed over the presented header and payload
SignatureValid(token, key) ==
    DecodeSig(token.sig) =
        [mac |-> HMAC(key, token.header, token.payload), flipped |-> {}]

\* jwt.decode(jwt=token, key=key, algorithms=algorithms) at instant t.
\* Every error it reports is a subclass of jwt.InvalidTokenError.
JwtDecode(token, key, algorithms, t, strictIat) ==
    IF ~token.wf THEN JwtError("DecodeError")
    ELSE IF token.header.alg \notin algorithms
         THEN JwtError("InvalidAlgorithmError")
    ELSE IF ~SignatureValid(token, key) THEN JwtError("InvalidSignatureError")
    ELSE IF /\ "iat" \in DOMAIN token.payload
            /\ strictIat
            /\ token.payload.iat > t
         THEN JwtError("ImmatureSignatureError")
    ELSE IF "exp" \in DOMAIN token.payload /\ token.payload.exp <= t
         THEN JwtError("ExpiredSignatureError")
    ELSE JwtOk(token.payload)

\* the fields of schemas/auth.py JWTPayload, all required
JWTPayloadFields == {"userId", "role", "zone", "permissions", "iat", "exp"}

\* JWTPayload(**payload) succeeds
JWTPayloadValid(payload) ==
    /\ JWTPayloadFields \subseteq DOMAIN payload
    /\ payload.role \in UserRole

\* JWTPayload(**payload): the declared fields, other keys are dropped
JWTPayload(payload) == [f \in JWTPayloadFields |-> payload[f]]

Claim(c) == [tag |-> "Claim", claim |-> c]
Raised(exc) == [tag |-> "Raise", exc |-> exc]

\* AuthService.verify_jwt_token at instant t: the decoded claim, None for the
\* jwt errors the two except clauses name, and a raised ValidationError when
\* the signed payload does not fit JWTPayload
verify_jwt_token(token, t, strictIat) ==
    LET d == JwtDecode(token, JWT_SECRET_KEY, {JWT_ALGORITHM}, t, strictIat)
    IN  IF d.tag = "error" THEN None
        ELSE IF JWTPayloadValid(d.payload) THEN Claim(JWTPayload(d.payload))
        ELSE Raised("ValidationError")

(***************************************************************************)
(* Tokens a client can present                                             *)
(***************************************************************************)
TokenRequests == [userId : UserIds, role : UserRole, zone : TokenZones]

AttackerKey == "attacker-key"

SigBits == 1 .. (MacBits + PadBits)

\* flip bit b of the signature segment: bits 1..MacBits are MAC bits, the
\* following PadBits bits are the unused trailing bits of the last character
FlipSigBit(token, b) ==
    IF b <= MacBits
    THEN [token EXCEPT !.sig.flipped =
             IF b \in @ THEN @ \ {b} ELSE @ \cup {b}]
    ELSE [token EXCEPT !.sig.pad =
             IF b \in @ THEN @ \ {b} ELSE @ \cup {b}]

\* jwt_security_analysis.simulate_token_tampering: the payload rewritten to
\* super_admin, header and signature kept
TamperRole(token) ==
    [token EXCEPT !.payload.role = "super_admin",
                  !.payload.permissions = PERMISSIONS_MAP["super_admin"]]

\* the expiry pushed back by one validity period, signature kept
TamperExp(token) == [token EXCEPT !.payload.exp = @ + TTL]

TokenKinds == {"genuine", "role", "exp", "sigbit", "forged", "algnone",
               "malformed", "partial"}

\* the token of the given kind derived from the issued token base
Present(kind, base, b) ==
    CASE kind = "genuine"   -> base
      [] kind = "role"      -> TamperRole(base)
      [] kind = "exp"       -> TamperExp(base)
      [] kind = "sigbit"    -> FlipSigBit(base, b)
      [] kind = "forged"    -> JwtEncode(TamperRole(base).payload, AttackerKey,
                                         JWT_ALGORITHM)
      [] kind = "algnone"   -> [TamperRole(base) EXCEPT !.header.alg = "none"]
      [] kind = "malformed" -> [base EXCEPT !.wf = FALSE]
      [] kind = "partial"   -> JwtEncode([userId |-> base.payload.userId,
                                          exp    |-> base.payload.exp],
                                         JWT_SECRET_KEY, JWT_ALGORITHM)

(***************************************************************************)
(* Token service: issue, verify, permission lookup, passing time           *)
(***************************************************************************)
Idle == [op |-> "idle"]

\* POST /auth/token past the secret check: create_access_token
IssueToken(request) ==
    /\ authOut' = [op           |-> "issue",
                   request      |-> request,
                   at           |-> now,
                   access_token |-> create_jwt_token(request, now, tz),
                   token_type   |-> "bearer",
                   expires_in   |-> get_token_expiry_seconds]
    /\ UNCHANGED <<now, tz, iatChecked, resp, store, zones, walk, calls, users>>

\* verify_jwt_token on a token derived from the one issued for request at t0
VerifyToken(kind, request, t0, b) ==
    /\ t0 <= now
    /\ LET base  == create_jwt_token(request, t0, tz)
           token == Present(kind, base, b)
       IN  authOut' = [op       |-> "verify",
                       kind     |-> kind,
                       request  |-> request,
                       issuedAt |-> t0,
                       base     |-> base,
                       bit      |-> b,
                       token    |-> token,
                       at       |-> now,
                       result   |-> verify_jwt_token(token, now, iatChecked)]
    /\ UNCHANGED <<now, tz, iatChecked, resp, store, zones, walk, calls, users>>

\* get_permissions_for_role on any role string
LookupPermissions(role) ==
    /\ authOut' = [op     |-> "permissions",
                   role   |-> role,
                   result |-> get_permissions_for_role(role)]
    /\ UNCHANGED <<now, tz, iatChecked, resp, store, zones, walk, calls, users>>

\* the clock moves on
Tick(t) ==
    /\ t > now
    /\ now' = t
    /\ UNCHANGED <<tz, iatChecked, authOut, resp, store, zones, walk, calls, users>>

InitAuth ==
    /\ now = 0
    /\ tz \in TZOffsets
    /\ iatChecked \in BOOLEAN
    /\ authOut = Idle
    /\ resp = IdleResponse
    /\ store = <<>>
    /\ zones = <<>>
    /\ walk = NoWalk
    /\ calls = NoCalls
    /\ users = NoDocuments

NextAuth ==
    \/ \E request \in TokenRequests : IssueToken(request)
    \/ \E kind \in TokenKinds, request \in TokenRequests, t0 \in IssueTimes,
          b \in SigBits :
          /\ (kind # "sigbit" => b = 1)
          /\ VerifyToken(kind, request, t0, b)
    \/ \E role \in RoleInputs : LookupPermissions(role)
    \/ \E t \in Times : Tick(t)

SpecAuth == InitAuth /\ [][NextAuth]_vars

(***************************************************************************)
(* Token issue endpoint (app/api/auth.py)                                  *)
(***************************************************************************)
\* settings.AUTH_SECRET_KEY
AUTH_SECRET_KEY == "arise-master-auth-secret-2025"

\* the characters of the zone strings a token request may carry
ZoneChars ==
    [GSEZ    |-> <<"G", "S", "E", "Z">>,
     GDIZ    |-> <<"G", "D", "I", "Z">>,
     OSEZ    |-> <<"O", "S", "E", "Z">>,
     TEST    |-> <<"T", "E", "S", "T">>,
     CIP     |-> <<"C", "I", "P">>,
     gsez    |-> <<"g", "s", "e", "z">>,
     INVALID |-> <<"I", "N", "V", "A", "L", "I", "D">>]

UpperLetters ==
    {"A", "C", "D", "E", "G", "I", "L", "N", "O", "P", "S", "T", "V", "Z"}

MinZoneLen == 4
MaxZoneLen == 6

\* a format check that lets every zone string through
AnyZoneCode(v) == TRUE

\* AuthTokenRequest.validate_zone_code: 4-6 upper-case letters
validate_zone_code(v) ==
    /\ \A i \in DOMAIN ZoneChars[v] : ZoneChars[v][i] \in UpperLetters
    /\ MinZoneLen <= Len(ZoneChars[v])
    /\ Len(ZoneChars[v]) <= MaxZoneLen

\* the request body parses into an AuthTokenRequest
AuthTokenRequestValid(body) ==
    /\ body.role \in UserRole
    /\ validate_zone_code(body.zone)

\* a validation that accepts every secret key
AcceptAnySecret(request, secret_key) ==
    IF request.role \notin UserRole THEN "INVALID_ROLE" ELSE Null

\* AuthService.validate_request: the secret key, then the role; no zone check
validate_request(request, secret_key) ==
    IF secret_key # <<AUTH_SECRET_KEY>> THEN "INVALID_SECRET_KEY"
    ELSE IF request.role \notin UserRole THEN "INVALID_ROLE"
    ELSE Null

\* authorization.split(" ", 1) on a header given as its words and blanks
SplitOnce(atoms) ==
    LET blanks == {i \in DOMAIN atoms : atoms[i] = " "}
    IN  IF blanks = {} THEN <<atoms>>
        ELSE LET i == CHOOSE k \in blanks : \A m \in blanks : k <= m
             IN  <<SubSeq(atoms, 1, i - 1), SubSeq(atoms, i + 1, Len(atoms))>>

\* an Authorization header: missing, or the words and blanks of its value
NoHeader == [present |-> FALSE, atoms |-> <<>>]
Header(atoms) == [present |-> TRUE, atoms |-> atoms]

TokenReply(status, code, validation, token, expires_in) ==
    [status |-> status, code |-> code, validation |-> validation,
     access_token |-> token, expires_in |-> expires_in]

\* create_access_token: the body is parsed first (422), then the header is
\* checked, then validate_request, then the token is created
create_access_token(body, authorization, t, offset) ==
    IF ~AuthTokenRequestValid(body)
    THEN TokenReply(422, "VALIDATION_ERROR", "", None, 0)
    ELSE IF ~authorization.present \/ authorization.atoms = <<>>
    THEN TokenReply(401, "MISSING_AUTHORIZATION", "", None, 0)
    ELSE LET auth_parts == SplitOnce(authorization.atoms)
         IN  IF \/ Len(auth_parts) # 2
                \/ Len(auth_parts[1]) # 1
                \/ Lower(auth_parts[1][1]) # "secret"
             THEN TokenReply(401, "INVALID_AUTHORIZATION_FORMAT", "", None, 0)
             ELSE LET validation_error == validate_request(body, auth_parts[2])
                  IN  IF validation_error = "INVALID_SECRET_KEY"
                      THEN TokenReply(401, "UNAUTHORIZED", validation_error,
                                      None, 0)
                      ELSE IF validation_error = "INVALID_ROLE"
                      THEN TokenReply(400, "INVALID_ROLE", validation_error,
                                      None, 0)
                      ELSE IF validation_error = "INVALID_ZONE"
                      THEN TokenReply(400, "INVALID_ZONE", validation_error,
                                      None, 0)
                      ELSE TokenReply(200, "", validation_error,
                                      create_jwt_token(body, t, offset),
                                      get_token_expiry_seconds)

\* POST /auth/token
CreateAccessToken(body, authorization) ==
    /\ authOut' = [op            |-> "token",
                   request       |-> body,
                   authorization |-> authorization,
                   at            |-> now,
                   reply         |-> create_access_token(body, authorization,
                                                         now, tz)]
    /\ UNCHANGED <<now, tz, iatChecked, resp, store, zones, walk, calls, users>>

\* request bodies and Authorization headers sent to the endpoint
IssueRoles == {"zone_admin", "invalid_role"}
IssueZones == DOMAIN ZoneChars
IssueBodies == [userId : UserIds, role : IssueRoles, zone : IssueZones]
AuthHeaders ==
    {NoHeader, Header(<<>>), Header(<<AUTH_SECRET_KEY>>), Header(<<"Secret">>)}
    \cup {Header(<<scheme, " ", AUTH_SECRET_KEY>>) :
              scheme \in {"Secret", "secret", "SECRET", "Bearer"}}
    \cup {Header(<<"Secret", " ", "wrong-key">>),
          Header(<<"Secret", " ", " ", AUTH_SECRET_KEY>>)}

NextIssue ==
    \/ \E body \in IssueBodies, authorization \in AuthHeaders :
          CreateAccessToken(body, authorization)
    \/ \E t \in Times : Tick(t)

SpecIssue == InitAuth /\ [][NextIssue]_vars

(***************************************************************************)
(* AuthorizationGate (app/utils/auth.py)                                   *)
(***************************************************************************)
\* the (resource, action) each endpoint requires: require_plots_read,
\* require_plots_write, require_zones_write
Required ==
    [op \in {"list", "details", "update", "release", "create_zone"} |->
        CASE op = "list"        -> [resource |-> "plots", action |-> "read"]
          [] op = "details"     -> [resource |-> "plots", action |-> "read"]
          [] op = "update"      -> [resource |-> "plots", action |-> "write"]
          [] op = "release"     -> [resource |-> "plots", action |-> "write"]
          [] op = "create_zone" -> [resource |-> "zones", action |-> "write"]]

Ops == DOMAIN Required

\* the operations on plot partitions
PlotOps == {"list", "details", "update", "release"}

\* a permission check that looks at the read list whatever the action is
ReadOnlyPermitted(claim, resource, action) ==
    resource \in Elems(claim.permissions["read"])

\* check_permission: resource in user.permissions.get(action, [])
Permitted(claim, resource, action) ==
    /\ action \in DOMAIN claim.permissions
    /\ resource \in Elems(claim.permissions[action])

\* the response record of a request: how far it got (steps), what the
\* verifier said, the claim handed downstream, the answer, and the plot
\* partitions and zone documents the request read and wrote
Response(stage, op, token, verify, claim, steps, status, code, message, request, reads, writes, body) ==
    [stage |-> stage, op |-> op, token |-> token, verify |-> verify,
     claim |-> claim, steps |-> steps, status |-> status, code |-> code,
     message |-> message, request |-> request, reads |-> reads,
     writes |-> writes, body |-> body]

\* the dependency chain of an endpoint: get_current_user, then
\* check_permission; on success the request waits for the endpoint body
\* with the claim
GateResponse(op, token, t, strictIat) ==
    LET v == verify_jwt_token(token, t, strictIat)
        need == Required[op]
    IN  IF v.tag = "Raise"
        THEN Response("done", op, token, v.tag, None, <<"verify">>, 500,
                      "INTERNAL_SERVER_ERROR", v.exc, None, {}, {}, None)
        ELSE IF v = None
        THEN Response("done", op, token, v.tag, None, <<"verify">>, 401,
                      "UNAUTHORIZED", "Invalid or expired JWT token", None,
                      {}, {}, None)
        ELSE IF ~Permitted(v.claim, need.resource, need.action)
        THEN Response("done", op, token, v.tag, None,
                      <<"verify", "permission">>, 403, "FORBIDDEN",
                      "Insufficient permissions", None, {}, {}, None)
        ELSE Response("gate", op, token, v.tag, v.claim,
                      <<"verify", "permission">>, 0, "", "", None, {}, {},
                      None)

\* a request for endpoint op arrives with a bearer token and runs through
\* the endpoint's dependencies
Gate(op, token) ==
    /\ resp.stage # "gate"
    /\ resp' = GateResponse(op, token, now, iatChecked)
    /\ UNCHANGED <<now, tz, iatChecked, authOut, store, zones, walk, calls, users>>

(***************************************************************************)
(* CollectionResolver (app/services/firestore.py)                          *)
(***************************************************************************)
\* FirestoreService.country_zone_mapping
country_zone_mapping ==
    [c \in {"drc", "benin", "gabon", "nigeria", "roc", "rwanda", "togo"} |->
        CASE c = "drc"     -> "CIP"
          [] c = "benin"   -> "GDIZ"
          [] c = "gabon"   -> "GSEZ"
          [] c = "nigeria" -> "IPR"
          [] c = "roc"     -> "PIC"
          [] c = "rwanda"  -> "BSEZ"
          [] c = "togo"    -> "PIA"]

\* a path built from the country as the caller wrote it
RawCollectionPath(country, zone_code, phase) == <<country, zone_code, phase>>

\* FirestoreService.get_plot_collection_path
get_plot_collection_path(country, zone_code, phase) ==
    <<Lower(country), zone_code, phase>>

\* a validation that only checks that the country is supported
ValidateCountryOnly(country, zone_code) ==
    IF Lower(country) \notin DOMAIN country_zone_mapping
    THEN "Unsupported country"
    ELSE "ok"

\* FirestoreService.validate_country_zone_mapping: "ok" for True, otherwise
\* the head of the ValueError message
validate_country_zone_mapping(country, zone_code) ==
    LET country_lower == Lower(country)
    IN  IF country_lower \notin DOMAIN country_zone_mapping
        THEN "Unsupported country"
        ELSE IF zone_code # country_zone_mapping[country_lower]
        THEN "Invalid zone code"
        ELSE "ok"

(***************************************************************************)
(* The document store                                                      *)
(***************************************************************************)
\* a key a document does not have
Absent == "absent"

\* ' '.join(s.split()) on the plot names the model uses
NormSpace(s) ==
    CASE s = " GSEZ-R-001 " -> "GSEZ-R-001"
      [] OTHER              -> s

\* schemas/plots.py PlotStatus and PlotCategory
PlotStatus == {"Available", "Allocated", "Reserved"}
PlotCategory == {"Residential", "Commercial", "Industrial"}

\* the keys of a plot document the operations read or write; details is the
\* nested object the mutations address with field paths
PlotDoc(name, status, category, company) ==
    [name |-> name, plotStatus |-> status, category |-> category,
     sector |-> IF company = Absent THEN Absent ELSE "Technology",
     allocatedDate |-> IF company = Absent THEN Absent ELSE "2024-07-04",
     expiryDate |-> IF company = Absent THEN Absent ELSE "2029-07-04",
     investmentAmount |-> IF company = Absent THEN Absent ELSE "1000000",
     employmentGenerated |-> IF company = Absent THEN Absent ELSE "50",
     updatedAt |-> 0,
     details |-> [plotStatus |-> Absent, category |-> Absent,
                  areaInSqm |-> Absent, areaInHa |-> Absent,
                  companyName |-> company,
                  activity |-> IF company = Absent THEN Absent ELSE "Software",
                  operationalStatus |-> Absent, remark |-> Absent]]

\* the seeded plot of key i in gabon/GSEZ/phase1
GsezPlot(i) ==
    CASE i = 1 -> PlotDoc("GSEZ-R-001", "Available", "Residential", Absent)
      [] i = 2 -> PlotDoc("GSEZ-R-002", "Allocated", "Commercial", "Acme")
      [] OTHER -> PlotDoc("GSEZ-R-003", "Available", "Residential", Absent)

\* the plot partitions present in the store: two partitions of the
\* topology and one (gabon/OSEZ) that the topology table does not contain
SeedStore(n) ==
    (<<"gabon", "GSEZ", "phase1">> :> [i \in 1 .. n |-> GsezPlot(i)])
    @@ (<<"benin", "GDIZ", "phase1">> :>
            [i \in {1} |-> PlotDoc("GDIZ-C-001", "Available", "Commercial",
                                   Absent)])
    @@ (<<"gabon", "OSEZ", "phase1">> :>
            [i \in {1} |-> PlotDoc("OSEZ-I-001", "Available", "Industrial",
                                   Absent)])

\* db.collection(path): the documents of the collection, none when the
\* collection does not exist
Collection(st, path) == IF path \in DOMAIN st THEN st[path] ELSE <<>>

RECURSIVE SortedSeq(_)
\* the keys of a set in ascending order (order_by('__name__'))
SortedSeq(S) ==
    IF S = {} THEN <<>>
    ELSE LET m == CHOOSE x \in S : \A y \in S : x <= y
         IN  <<m>> \o SortedSeq(S \ {m})

\* the first n elements of a sequence (query.limit(n))
Take(seq, n) == IF Len(seq) <= n THEN seq ELSE SubSeq(seq, 1, n)

(***************************************************************************)
(* Service results                                                         *)
(***************************************************************************)
\* what a service call did: the exception it raised ("" for none) with the
\* head of its message, the steps it went through, the value it returned,
\* the partitions it read and wrote, and the plot store after the call
Result(exc, message, steps, body, reads, writes, st) ==
    [exc |-> exc, message |-> message, steps |-> steps, body |-> body,
     reads |-> reads, writes |-> writes, store |-> st]

(***************************************************************************)
(* PlotQueryEngine                                                         *)
(***************************************************************************)
\* a query that fetches limit records and guesses the next page from a
\* full page
FetchWithoutLookahead(coll, cursor, limit) ==
    LET keys  == SortedSeq(DOMAIN coll)
        after == IF cursor # 0 /\ cursor \in DOMAIN coll
                 THEN SelectSeq(keys, LAMBDA k : k > cursor)
                 ELSE keys
        page  == Take(after, limit)
    IN  [fetched |-> page, page |-> page, hasNextPage |-> Len(page) = limit,
         nextCursor |-> IF Len(page) = limit THEN page[Len(page)] ELSE 0]

\* a query whose nextCursor is the key of the extra record it fetched
CursorOnLookahead(coll, cursor, limit) ==
    LET keys    == SortedSeq(DOMAIN coll)
        after   == IF cursor # 0 /\ cursor \in DOMAIN coll
                   THEN SelectSeq(keys, LAMBDA k : k > cursor)
                   ELSE keys
        fetched == Take(after, limit + 1)
        more    == Len(fetched) > limit
    IN  [fetched |-> fetched, page |-> Take(fetched, limit),
         hasNextPage |-> more,
         nextCursor |-> IF more THEN fetched[Len(fetched)] ELSE 0]

\* the query of get_available_plots / get_plot_details: document keys in
\* key order, after the cursor document when it exists, limit + 1 of them;
\* then the page, hasNextPage and nextCursor (0 for no cursor)
FetchPage(coll, cursor, limit) ==
    LET keys    == SortedSeq(DOMAIN coll)
        after   == IF cursor # 0 /\ cursor \in DOMAIN coll
                   THEN SelectSeq(keys, LAMBDA k : k > cursor)
                   ELSE keys
        fetched == Take(after, limit + 1)
        more    == Len(fetched) > limit
        page    == IF more THEN SubSeq(fetched, 1, Len(fetched) - 1)
                   ELSE fetched
    IN  [fetched |-> fetched, page |-> page, hasNextPage |-> more,
         nextCursor |-> IF page # <<>> /\ more THEN page[Len(page)] ELSE 0]

\* a cursor that is taken as it comes
TrustedCursor(coll, cursor, lookup) == cursor

\* the cursor lookup of get_available_plots / get_plot_details: the cursor
\* counts when the lookup of its document succeeds and the document exists
ResolveCursor(coll, cursor, lookup) ==
    IF cursor # 0 /\ lookup = "ok" /\ cursor \in DOMAIN coll THEN cursor ELSE 0

\* a zone check that never denies
NoZonePin(is_zone_admin, user_zone, zoneCode) == FALSE

\* step 2 of get_available_plots: the request is outside the caller's zone
ListZoneDenied(is_zone_admin, user_zone, zoneCode) ==
    is_zone_admin /\ user_zone # Null /\ user_zone # "" /\ user_zone # zoneCode

\* a zone check for the other operations that never denies
NoZonePinOther(user_zone, zoneCode) == FALSE

\* step 2 of update_plot, release_plot and get_plot_details
ZoneDenied(user_zone, zoneCode) ==
    user_zone # Null /\ user_zone # "" /\ user_zone # zoneCode

\* FirestoreService.get_available_plots
get_available_plots(q, user_zone, is_zone_admin, st) ==
    LET valid == validate_country_zone_mapping(q.country, q.zoneCode)
        path  == get_plot_collection_path(q.country, q.zoneCode, q.phase)
        coll  == Collection(st, path)
        limit == IF q.limit = 0 THEN 50 ELSE q.limit
        pg    == FetchPage(coll, ResolveCursor(coll, q.cursor, q.lookup), limit)
        Shown(k) ==
            /\ (q.category # Null => coll[k].category = q.category)
            /\ coll[k].plotStatus \in PlotStatus
            /\ coll[k].category \in PlotCategory
        shown == SelectSeq(pg.page, Shown)
        plots == [i \in DOMAIN shown |->
                    [key        |-> shown[i],
                     plotName   |-> coll[shown[i]].name,
                     plotStatus |-> coll[shown[i]].plotStatus,
                     category   |-> coll[shown[i]].category,
                     zoneCode   |-> q.zoneCode,
                     country    |-> q.country]]
    IN  IF valid # "ok"
        THEN Result("ValueError", valid, <<"validate">>, None, {}, {}, st)
        ELSE IF ListZoneDenied(is_zone_admin, user_zone, q.zoneCode)
        THEN Result("PermissionError", "Access denied",
                    <<"validate", "scope">>, None, {}, {}, st)
        ELSE Result("", "", <<"validate", "scope", "store">>,
                    [plots |-> plots,
                     pagination |-> [limit |-> limit,
                                     hasNextPage |-> pg.hasNextPage,
                                     nextCursor |-> pg.nextCursor,
                                     totalReturned |-> Len(plots)]],
                    {path}, {}, st)

\* FirestoreService.get_plot_details
get_plot_details(q, user_zone, st) ==
    LET valid == validate_country_zone_mapping(q.country, q.zoneCode)
        path  == get_plot_collection_path(q.country, q.zoneCode, q.phase)
        coll  == Collection(st, path)
        limit == IF q.limit = 0 THEN 50 ELSE q.limit
        pg    == FetchPage(coll, ResolveCursor(coll, q.cursor, q.lookup), limit)
        items == [i \in DOMAIN pg.page |->
                    [key      |-> pg.page[i],
                     plotName |-> coll[pg.page[i]].name,
                     status   |-> coll[pg.page[i]].plotStatus,
                     category |-> coll[pg.page[i]].category,
                     country  |-> q.country,
                     zoneCode |-> q.zoneCode]]
        avail == {i \in DOMAIN items :
                     Lower(items[i].status) \in {"available", ""}}
    IN  IF valid # "ok"
        THEN Result("ValueError", valid, <<"validate">>, None, {}, {}, st)
        ELSE IF ZoneDenied(user_zone, q.zoneCode)
        THEN Result("PermissionError", "Access denied",
                    <<"validate", "scope">>, None, {}, {}, st)
        ELSE Result("", "", <<"validate", "scope", "store">>,
                    [metadata |-> [country |-> q.country,
                                   zoneCode |-> q.zoneCode,
                                   totalPlots |-> Len(items),
                                   availablePlots |-> Cardinality(avail)],
                     plots |-> items,
                     pagination |-> [limit |-> limit,
                                     hasNextPage |-> pg.hasNextPage,
                                     nextCursor |-> pg.nextCursor,
                                     totalReturned |-> Len(items)]],
                    {path}, {}, st)

(***************************************************************************)
(* PlotMutationEngine                                                      *)
(***************************************************************************)
\* step 4 of update_plot / release_plot: the key of the first document
\* whose name equals plotName, else of the first whose name matches after
\* whitespace normalisation and lower-casing, else 0
FindPlot(coll, plotName) ==
    LET keys  == SortedSeq(DOMAIN coll)
        exact == SelectSeq(keys, LAMBDA k : coll[k].name = plotName)
        flex  == SelectSeq(keys, LAMBDA k :
                     Lower(NormSpace(plotName)) = Lower(NormSpace(coll[k].name)))
    IN  IF exact # <<>> THEN exact[1]
        ELSE IF flex # <<>> THEN flex[1]
        ELSE 0

\* update_plot writing every optional field of the request, supplied or not
OverwriteDetails(request, user_zone, st, t) ==
    LET valid == validate_country_zone_mapping(request.country,
                                               request.zoneCode)
        path  == get_plot_collection_path(request.country, request.zoneCode,
                                          request.phase)
        coll  == Collection(st, path)
        k     == FindPlot(coll, request.plotName)
        doc   == [coll[k] EXCEPT
                    !.updatedAt = t,
                    !.details.plotStatus = request.plotStatus,
                    !.details.category = request.category,
                    !.details.areaInSqm = request.areaInSqm,
                    !.details.areaInHa = request.areaInHa]
    IN  IF valid # "ok"
        THEN Result("ValueError", valid, <<"validate">>, None, {}, {}, st)
        ELSE IF ZoneDenied(user_zone, request.zoneCode)
        THEN Result("PermissionError", "Access denied",
                    <<"validate", "scope">>, None, {}, {}, st)
        ELSE IF k = 0
        THEN Result("ValueError", "Plot not found",
                    <<"validate", "scope", "store">>, None, {path}, {}, st)
        ELSE Result("", "", <<"validate", "scope", "store">>,
                    [message  |-> "Plot updated successfully",
                     plotName |-> request.plotName,
                     status   |-> request.plotStatus],
                    {path}, {path}, [st EXCEPT ![path][k] = doc])

\* FirestoreService.update_plot at server time t
update_plot(request, user_zone, st, t) ==
    LET valid == validate_country_zone_mapping(request.country,
                                               request.zoneCode)
        path  == get_plot_collection_path(request.country, request.zoneCode,
                                          request.phase)
        coll  == Collection(st, path)
        k     == FindPlot(coll, request.plotName)
        doc   == [coll[k] EXCEPT
                    !.updatedAt = t,
                    !.details.plotStatus = request.plotStatus,
                    !.details.category =
                        IF request.category # Null THEN request.category
                        ELSE @,
                    !.details.areaInSqm =
                        IF request.areaInSqm # Null THEN request.areaInSqm
                        ELSE @,
                    !.details.areaInHa =
                        IF request.areaInHa # Null THEN request.areaInHa
                        ELSE @]
    IN  IF valid # "ok"
        THEN Result("ValueError", valid, <<"validate">>, None, {}, {}, st)
        ELSE IF ZoneDenied(user_zone, request.zoneCode)
        THEN Result("PermissionError", "Access denied",
                    <<"validate", "scope">>, None, {}, {}, st)
        ELSE IF k = 0
        THEN Result("ValueError", "Plot not found",
                    <<"validate", "scope", "store">>, None, {path}, {}, st)
        ELSE Result("", "", <<"validate", "scope", "store">>,
                    [message  |-> "Plot updated successfully",
                     plotName |-> request.plotName,
                     status   |-> request.plotStatus],
                    {path}, {path},
                    [st EXCEPT ![path][k] = doc])

\* release_plot checking the caller's zone before the topology
ScopeFirstRelease(request, user_zone, st, t) ==
    LET valid == validate_country_zone_mapping(request.country,
                                               request.zoneCode)
        path  == get_plot_collection_path(request.country, request.zoneCode,
                                          request.phase)
        coll  == Collection(st, path)
        k     == FindPlot(coll, request.plotName)
        clear == Lower(request.plotStatus) = "available"
        doc   == IF clear
                 THEN [coll[k] EXCEPT
                         !.updatedAt = t,
                         !.expiryDate = Null,
                         !.investmentAmount = Null,
                         !.employmentGenerated = Null,
                         !.details.plotStatus = request.plotStatus,
                         !.details.companyName = "",
                         !.details.activity = "",
                         !.details.operationalStatus = "",
                         !.details.remark = ""]
                 ELSE [coll[k] EXCEPT
                         !.updatedAt = t,
                         !.details.plotStatus = request.plotStatus]
    IN  IF ZoneDenied(user_zone, request.zoneCode)
        THEN Result("PermissionError", "Access denied",
                    <<"scope">>, None, {}, {}, st)
        ELSE IF valid # "ok"
        THEN Result("ValueError", valid, <<"scope", "validate">>, None, {},
                    {}, st)
        ELSE IF k = 0
        THEN Result("ValueError", "Plot not found",
                    <<"scope", "validate", "store">>, None, {path}, {}, st)
        ELSE Result("", "", <<"scope", "validate", "store">>,
                    [message  |-> "Plot status updated successfully",
                     plotName |-> request.plotName,
                     status   |-> request.plotStatus],
                    {path}, {path}, [st EXCEPT ![path][k] = doc])

\* FirestoreService.release_plot at server time t
release_plot(request, user_zone, st, t) ==
    LET valid == validate_country_zone_mapping(request.country,
                                               request.zoneCode)
        path  == get_plot_collection_path(request.country, request.zoneCode,
                                          request.phase)
        coll  == Collection(st, path)
        k     == FindPlot(coll, request.plotName)
        clear == Lower(request.plotStatus) = "available"
        doc   == IF clear
                 THEN [coll[k] EXCEPT
                         !.updatedAt = t,
                         !.expiryDate = Null,
                         !.investmentAmount = Null,
                         !.employmentGenerated = Null,
                         !.details.plotStatus = request.plotStatus,
                         !.details.companyName = "",
                         !.details.activity = "",
                         !.details.operationalStatus = "",
                         !.details.remark = ""]
                 ELSE [coll[k] EXCEPT
                         !.updatedAt = t,
                         !.details.plotStatus = request.plotStatus]
    IN  IF valid # "ok"
        THEN Result("ValueError", valid, <<"validate">>, None, {}, {}, st)
        ELSE IF ZoneDenied(user_zone, request.zoneCode)
        THEN Result("PermissionError", "Access denied",
                    <<"validate", "scope">>, None, {}, {}, st)
        ELSE IF k = 0
        THEN Result("ValueError", "Plot not found",
                    <<"validate", "scope", "store">>, None, {path}, {}, st)
        ELSE Result("", "", <<"validate", "scope", "store">>,
                    [message  |-> "Plot status updated",
                     plotName |-> request.plotName,
                     zoneCode |-> request.zoneCode,
                     status   |-> Lower(request.plotStatus)],
                    {path}, {path},
                    [st EXCEPT ![path][k] = doc])

\* plot_doc.reference.update(update_data): the field paths an allocate or a
\* release writes, applied to the document as it is at the write
ApplyUpdate(doc, op, request, t) ==
    IF op = "update"
    THEN [doc EXCEPT
            !.updatedAt = t,
            !.details.plotStatus = request.plotStatus,
            !.details.category =
                IF request.category # Null THEN request.category ELSE @,
            !.details.areaInSqm =
                IF request.areaInSqm # Null THEN request.areaInSqm ELSE @,
            !.details.areaInHa =
                IF request.areaInHa # Null THEN request.areaInHa ELSE @]
    ELSE IF Lower(request.plotStatus) = "available"
    THEN [doc EXCEPT
            !.updatedAt = t,
            !.expiryDate = Null,
            !.investmentAmount = Null,
            !.employmentGenerated = Null,
            !.details.plotStatus = request.plotStatus,
            !.details.companyName = "",
            !.details.activity = "",
            !.details.operationalStatus = "",
            !.details.remark = ""]
    ELSE [doc EXCEPT
            !.updatedAt = t,
            !.details.plotStatus = request.plotStatus]

\* what the query of step 4 hands to the rest of the operation: the key of
\* the document found (0 for none) and its data (current_data)
FindDocument(request, st) ==
    LET path == get_plot_collection_path(request.country, request.zoneCode,
                                         request.phase)
        coll == Collection(st, path)
        k    == FindPlot(coll, request.plotName)
    IN  [key |-> k, data |-> IF k = 0 THEN None ELSE coll[k]]

\* a write that stores the document built from the data read in step 5
WriteSnapshot(op, request, seen, st, t) ==
    LET path == get_plot_collection_path(request.country, request.zoneCode,
                                         request.phase)
    IN  [st EXCEPT ![path][seen.key] = ApplyUpdate(seen.data, op, request, t)]

\* step 7 of update_plot and release_plot: the update of the document the
\* query found, in the store as it is then
WriteDocument(op, request, seen, st, t) ==
    LET path == get_plot_collection_path(request.country, request.zoneCode,
                                         request.phase)
    IN  [st EXCEPT ![path][seen.key] = ApplyUpdate(@, op, request, t)]

(***************************************************************************)
(* ZoneRegistry                                                            *)
(***************************************************************************)
\* the document id f"{country}_{zoneCode}" (zoneCode holds letters only)
ZoneDocumentId(country, zoneCode) == <<country, zoneCode>>

\* the place of a zone document in the zones collection
ZonePath(id) == <<"zones", id>>

\* zone_doc_ref.get().exists
ZoneExists(request, zs) ==
    ZoneDocumentId(request.country, request.zoneCode) \in DOMAIN zs

\* create_zone writing the document whatever the lookup returned
UpsertZone(request, exists, zs, t) ==
    LET document_id == ZoneDocumentId(request.country, request.zoneCode)
        zone_data == [country   |-> request.country,
                      zoneCode  |-> request.zoneCode,
                      phase     |-> request.phase,
                      landArea  |-> request.landArea,
                      createdAt |-> t,
                      updatedAt |-> t]
    IN  Result("", "", <<"store">>,
               [country  |-> request.country,
                zoneCode |-> request.zoneCode,
                phase    |-> request.phase,
                landArea |-> request.landArea],
               {ZonePath(document_id)}, {ZonePath(document_id)},
               (document_id :> zone_data) @@ zs)

\* FirestoreService.create_zone after its lookup returned `exists`, at
\* server time t, on the zones collection zs as it is then
SetZone(request, exists, zs, t) ==
    LET document_id == ZoneDocumentId(request.country, request.zoneCode)
        zone_data == [country   |-> request.country,
                      zoneCode  |-> request.zoneCode,
                      phase     |-> request.phase,
                      landArea  |-> request.landArea,
                      createdAt |-> t,
                      updatedAt |-> t]
    IN  IF exists
        THEN Result("ValueError", "already exists", <<"store">>, None,
                    {ZonePath(document_id)}, {}, zs)
        ELSE Result("", "", <<"store">>,
                    [country  |-> request.country,
                     zoneCode |-> request.zoneCode,
                     phase    |-> request.phase,
                     landArea |-> request.landArea],
                    {ZonePath(document_id)}, {ZonePath(document_id)},
                    (document_id :> zone_data) @@ zs)

\* FirestoreService.create_zone run without interruption
create_zone(request, zs, t) ==
    SetZone(request, ZoneExists(request, zs), zs, t)

(***************************************************************************)
(* Endpoint bodies (app/api/plots.py, app/api/zones.py)                    *)
(***************************************************************************)
\* an endpoint that hands no scope zone to the engines
NoUserZone(claim) == Null

\* user.zone if user.role == "zone_admin" else None
UserZone(claim) == IF claim.role = "zone_admin" THEN claim.zone ELSE Null

\* the response of an endpoint whose service call ended as r, answered with
\* the given status and error code
Finish(request, r, status, code) ==
    [resp EXCEPT !.stage = "done",
                 !.steps = @ \o r.steps,
                 !.status = status,
                 !.code = code,
                 !.message = r.message,
                 !.request = request,
                 !.reads = r.reads,
                 !.writes = r.writes,
                 !.body = r.body]

\* the except clauses of get_available_plots and get_plot_details
ReadStatus(r) ==
    CASE r.exc = ""                -> [status |-> 200, code |-> ""]
      [] r.exc = "ValueError"      -> [status |-> 400, code |-> "INVALID_MAPPING"]
      [] r.exc = "PermissionError" -> [status |-> 403, code |-> "ACCESS_DENIED"]

\* the except clauses of update_plot and update_plot_status
WriteStatus(r) ==
    CASE r.exc = "" -> [status |-> 200, code |-> ""]
      [] r.exc = "ValueError"
         /\ r.message \in {"Invalid zone code", "Unsupported country"}
                    -> [status |-> 400, code |-> "INVALID_MAPPING"]
      [] r.exc = "ValueError"
         /\ r.message \notin {"Invalid zone code", "Unsupported country"}
                    -> [status |-> 404, code |-> "PLOT_NOT_FOUND"]
      [] r.exc = "PermissionError"
                    -> [status |-> 403, code |-> "FORBIDDEN"]

\* the except clauses of the create_zone endpoint
ZoneStatus(r) ==
    CASE r.exc = "" -> [status |-> 200, code |-> ""]
      [] r.exc = "ValueError" /\ r.message = "already exists"
                    -> [status |-> 409, code |-> "ZONE_EXISTS"]
      [] r.exc = "ValueError" /\ r.message # "already exists"
                    -> [status |-> 400, code |-> "INVALID_DATA"]

\* GET /plot/available
ListPlots(q) ==
    /\ resp.stage = "gate"
    /\ resp.op = "list"
    /\ IF q.category # Null /\ q.category \notin PlotCategory
       THEN resp' = [resp EXCEPT !.stage = "done", !.status = 400,
                                 !.code = "INVALID_CATEGORY", !.request = q]
       ELSE LET is_zone_admin == resp.claim.role = "zone_admin"
                user_zone == IF is_zone_admin THEN resp.claim.zone ELSE Null
                r == get_available_plots(q, user_zone, is_zone_admin, store)
            IN  resp' = Finish(q, r, ReadStatus(r).status, ReadStatus(r).code)
    /\ UNCHANGED <<now, tz, iatChecked, authOut, store, zones, walk, calls, users>>

\* GET /plot/plot-detail
PlotDetails(q) ==
    /\ resp.stage = "gate"
    /\ resp.op = "details"
    /\ LET r == get_plot_details(q, UserZone(resp.claim), store)
       IN  resp' = Finish(q, r, ReadStatus(r).status, ReadStatus(r).code)
    /\ UNCHANGED <<now, tz, iatChecked, authOut, store, zones, walk, calls, users>>

\* the answer to a request body that does not parse
Unprocessable(request) ==
    [resp EXCEPT !.stage = "done", !.status = 422,
                 !.code = "VALIDATION_ERROR", !.request = request]

\* the validators of PlotUpdateRequest: plotStatus of the enum, zoneCode of
\* 4-6 upper-case letters
PlotUpdateRequestValid(body) ==
    /\ body.plotStatus \in PlotStatus
    /\ validate_zone_code(body.zoneCode)

\* the validators of PlotReleaseRequest: plotStatus must be 'available' in
\* any letter case, zoneCode of 4-6 upper-case letters
PlotReleaseRequestValid(body) ==
    /\ Lower(body.plotStatus) = "available"
    /\ validate_zone_code(body.zoneCode)

\* the parsed release request: validate_plot_status returns v.lower()
PlotReleaseRequest(body) == [body EXCEPT !.plotStatus = Lower(@)]

\* PUT /plot/update-plot
UpdatePlot(request) ==
    /\ resp.stage = "gate"
    /\ resp.op = "update"
    /\ IF ~PlotUpdateRequestValid(request)
       THEN /\ resp' = Unprocessable(request)
            /\ store' = store
       ELSE LET r == update_plot(request, UserZone(resp.claim), store, now)
            IN  /\ resp' = Finish(request, r, WriteStatus(r).status,
                                  WriteStatus(r).code)
                /\ store' = r.store
    /\ UNCHANGED <<now, tz, iatChecked, authOut, zones, walk, calls, users>>

\* PATCH /plot/update-plot
ReleasePlot(request) ==
    /\ resp.stage = "gate"
    /\ resp.op = "release"
    /\ IF ~PlotReleaseRequestValid(request)
       THEN /\ resp' = Unprocessable(request)
            /\ store' = store
       ELSE LET r == release_plot(PlotReleaseRequest(request),
                                  UserZone(resp.claim), store, now)
            IN  /\ resp' = Finish(request, r, WriteStatus(r).status,
                                  WriteStatus(r).code)
                /\ store' = r.store
    /\ UNCHANGED <<now, tz, iatChecked, authOut, zones, walk, calls, users>>

\* POST /country/zone
CreateZone(request) ==
    /\ resp.stage = "gate"
    /\ resp.op = "create_zone"
    /\ LET r == create_zone(request, zones, now)
       IN  /\ resp' = Finish(request, r, ZoneStatus(r).status,
                             ZoneStatus(r).code)
           /\ zones' = r.store
    /\ UNCHANGED <<now, tz, iatChecked, authOut, store, walk, calls, users>>

(***************************************************************************)
(* The plot service: requests pass the gate, then the endpoint body runs   *)
(***************************************************************************)
\* the token kinds presented to the endpoints
GateKinds == {"genuine", "role", "malformed", "partial"}

\* the tokens presented: every token issued at an issue time, and the
\* forgeries derived from the zone_admin token of GSEZ
GateTokens ==
    {create_jwt_token(rq, t0, tz) : rq \in TokenRequests, t0 \in IssueTimes}
    \cup {Present(kind,
                  create_jwt_token([userId |-> "u1", role |-> "zone_admin",
                                    zone |-> "GSEZ"], 1, tz), 1) :
              kind \in GateKinds}

Countries == {"gabon", "Gabon", "benin", "atlantis"}
ZoneCodes == {"GSEZ", "GDIZ", "OSEZ", "gsez"}
Phases == {"phase1"}

ListQueries ==
    [country : Countries, zoneCode : ZoneCodes, phase : Phases,
     category : {Null, "Commercial", "Bogus"}, limit : {1}, cursor : {0, 1},
     lookup : {"ok"}]

DetailQueries ==
    [country : Countries, zoneCode : ZoneCodes, phase : Phases,
     limit : {1}, cursor : {0}, lookup : {"ok"}]

UpdateRequests ==
    [country : Countries, zoneCode : ZoneCodes, phase : Phases,
     plotName : {"GSEZ-R-001", "missing"}, plotStatus : {"Allocated"},
     category : {Null}, areaInSqm : {Null}, areaInHa : {Null}]

ReleaseRequests ==
    [country : Countries, zoneCode : ZoneCodes, phase : Phases,
     plotName : {"gsez-r-001"}, plotStatus : {"available"}]

ZoneRequests ==
    [country : {"Gabon"}, zoneCode : {"GSEZ", "GDIZ"}, phase : {1},
     landArea : {150}]

Init ==
    /\ now = TTL
    /\ tz = 0
    /\ iatChecked = TRUE
    /\ authOut = Idle
    /\ resp = IdleResponse
    /\ store = SeedStore(MaxDocs)
    /\ zones = <<>>
    /\ walk = NoWalk
    /\ calls = NoCalls
    /\ users = NoDocuments

Next ==
    \/ \E op \in Ops, token \in GateTokens : Gate(op, token)
    \/ \E q \in ListQueries : ListPlots(q)
    \/ \E q \in DetailQueries : PlotDetails(q)
    \/ \E request \in UpdateRequests : UpdatePlot(request)
    \/ \E request \in ReleaseRequests : ReleasePlot(request)
    \/ \E request \in ZoneRequests : CreateZone(request)

Spec == Init /\ [][Next]_vars

(***************************************************************************)
(* Paging through one partition                                            *)
(***************************************************************************)
\* the document of key k in a paged partition: categories alternate with
\* the key; in the "blank" content the document of key 2 has a blank status
PageDoc(k, content) ==
    PlotDoc(IF k % 2 = 1 THEN "GSEZ-R-00x" ELSE "GSEZ-C-00x",
            IF content = "blank" /\ k = 2 THEN "" ELSE "Available",
            IF k % 2 = 1 THEN "Residential" ELSE "Commercial",
            Absent)

\* the key sets of the paged partition: the first n keys, the odd keys, the
\* even keys
KeySets ==
    {1 .. n : n \in 0 .. MaxKeys}
    \cup {{k \in 1 .. MaxKeys : k % 2 = 1}, {k \in 1 .. MaxKeys : k % 2 = 0}}

PagePath == <<"gabon", "GSEZ", "phase1">>

PageStore(K, content) == PagePath :> [k \in K |-> PageDoc(k, content)]

PageLimits == {1, 2, 3}
PageCategories == {Null, "Commercial"}

\* list and plot-detail requests on the paged partition: any cursor, known
\* or not, and a cursor lookup that succeeds or fails
PageListQueries ==
    [country : {"gabon"}, zoneCode : {"GSEZ"}, phase : Phases,
     category : PageCategories, limit : PageLimits,
     cursor : 0 .. (MaxKeys + 1), lookup : {"ok", "error"}]

PageDetailQueries ==
    [country : {"gabon"}, zoneCode : {"GSEZ"}, phase : Phases,
     limit : PageLimits, cursor : 0 .. (MaxKeys + 1),
     lookup : {"ok", "error"}]

PageTokens ==
    {create_jwt_token([userId |-> "u1", role |-> r, zone |-> "GSEZ"], 1, tz) :
         r \in {"super_admin", "zone_admin"}}

InitPage ==
    /\ now = TTL
    /\ tz = 0
    /\ iatChecked = TRUE
    /\ authOut = Idle
    /\ resp = IdleResponse
    /\ store \in {PageStore(K, c) : K \in KeySets, c \in {"clean", "blank"}}
    /\ zones = <<>>
    /\ walk = NoWalk
    /\ calls = NoCalls
    /\ users = NoDocuments

NextPage ==
    \/ \E op \in {"list", "details"}, token \in PageTokens : Gate(op, token)
    \/ \E q \in PageListQueries : ListPlots(q)
    \/ \E q \in PageDetailQueries : PlotDetails(q)

SpecPage == InitPage /\ [][NextPage]_vars

\* the request a walking client sends next
WalkQuery ==
    [country |-> "gabon", zoneCode |-> "GSEZ", phase |-> "phase1",
     category |-> walk.category, limit |-> walk.limit,
     cursor |-> walk.cursor, lookup |-> "ok"]

\* a client starts paging from no cursor
StartWalk(category, limit) ==
    /\ IF walk.active THEN walk.done ELSE TRUE
    /\ walk' = [active |-> TRUE, category |-> category, limit |-> limit,
                cursor |-> 0, pages |-> <<>>, done |-> FALSE]
    /\ UNCHANGED <<now, tz, iatChecked, authOut, resp, store, zones, calls, users>>

\* the client takes the page it asked for and follows nextCursor until
\* hasNextPage is false
FollowPage ==
    /\ walk.active
    /\ ~walk.done
    /\ resp.stage = "done"
    /\ resp.op = "list"
    /\ resp.status = 200
    /\ resp.request = WalkQuery
    /\ LET pg == resp.body.pagination
       IN  walk' = [walk EXCEPT
                       !.pages = Append(@,
                           [cursor |-> walk.cursor,
                            keys |-> [i \in DOMAIN resp.body.plots |->
                                         resp.body.plots[i].key],
                            hasNextPage |-> pg.hasNextPage,
                            nextCursor |-> pg.nextCursor,
                            totalReturned |-> pg.totalReturned]),
                       !.cursor = pg.nextCursor,
                       !.done = ~pg.hasNextPage \/ pg.nextCursor = 0]
    /\ UNCHANGED <<now, tz, iatChecked, authOut, resp, store, zones, calls, users>>

NextWalk ==
    \/ \E category \in PageCategories, limit \in PageLimits :
          StartWalk(category, limit)
    \/ \E token \in PageTokens : Gate("list", token)
    \/ \E q \in PageListQueries :
          /\ walk.active
          /\ q = WalkQuery
          /\ ListPlots(q)
    \/ FollowPage

SpecWalk == InitPage /\ [][NextWalk]_vars

(***************************************************************************)
(* Allocating and releasing the plots of one partition                     *)
(***************************************************************************)
MutationTokens ==
    {create_jwt_token([userId |-> "u1", role |-> r, zone |-> "GSEZ"], 1, tz) :
         r \in {"zone_admin", "normal_user"}}

SeededPlots == {"GSEZ-R-001", "GSEZ-R-002"}

\* allocate requests: any status of the enum, with or without a category
\* and an area, naming a plot exactly, with other spacing, or not at all
MutationUpdateRequests ==
    [country : {"Gabon"}, zoneCode : {"GSEZ"}, phase : Phases,
     plotName : SeededPlots \cup {"missing", " GSEZ-R-001 "},
     plotStatus : PlotStatus, category : {Null, "Industrial"},
     areaInSqm : {Null, "5000"}, areaInHa : {Null}]

\* release requests: the two statuses of the release operation, and
\* 'available' as the request example writes it
MutationReleaseRequests ==
    [country : {"Gabon"}, zoneCode : {"GSEZ"}, phase : Phases,
     plotName : SeededPlots,
     plotStatus : {"Available", "available", "Occupied"}]

NextMutate ==
    \/ \E op \in {"update", "release"}, token \in MutationTokens :
          Gate(op, token)
    \/ \E request \in MutationUpdateRequests : UpdatePlot(request)
    \/ \E request \in MutationReleaseRequests : ReleasePlot(request)

SpecMutate == Init /\ [][NextMutate]_vars

(***************************************************************************)
(* Zone registration as two store calls: the lookup, then the write        *)
(***************************************************************************)
Calls == 1 .. MaxCalls

RegisterRequests ==
    [country : {"Gabon"}, zoneCode : {"GSEZ", "NSEZ"}, phase : {1},
     landArea : {150, 200}]

\* some call is between its read and its write
InFlight == \E c \in DOMAIN calls : calls[c].pc = "got"

\* existing_doc = zone_doc_ref.get()
RegisterGet(c, request) ==
    /\ calls[c].pc = "idle"
    /\ calls' = [calls EXCEPT ![c] =
                    [pc |-> "got", op |-> "register", request |-> request,
                     seen |-> ZoneExists(request, zones), status |-> 0,
                     value |-> None]]
    /\ UNCHANGED <<now, tz, iatChecked, authOut, resp, store, zones, walk, users>>

\* the rest of create_zone and the answer of the endpoint
RegisterSet(c) ==
    /\ calls[c].pc = "got"
    /\ calls[c].op = "register"
    /\ LET r == SetZone(calls[c].request, calls[c].seen, zones, now)
       IN  /\ zones' = r.store
           /\ calls' = [calls EXCEPT ![c].pc = "done",
                                     ![c].status = ZoneStatus(r).status]
    /\ UNCHANGED <<now, tz, iatChecked, authOut, resp, store, walk, users>>

InitCalls ==
    /\ now = TTL
    /\ tz = 0
    /\ iatChecked = TRUE
    /\ authOut = Idle
    /\ resp = IdleResponse
    /\ store = SeedStore(MaxDocs)
    /\ zones = <<>>
    /\ walk = NoWalk
    /\ calls = [c \in Calls |-> IdleCall]
    /\ users = NoDocuments

\* register calls one after another
NextRegister ==
    \/ \E c \in Calls, request \in RegisterRequests :
          ~InFlight /\ RegisterGet(c, request)
    \/ \E c \in Calls : RegisterSet(c)

SpecRegister == InitCalls /\ [][NextRegister]_vars

\* register calls handled concurrently
NextRegisterRace ==
    \/ \E c \in Calls, request \in RegisterRequests : RegisterGet(c, request)
    \/ \E c \in Calls : RegisterSet(c)

SpecRegisterRace == InitCalls /\ [][NextRegisterRace]_vars

(***************************************************************************)
(* User management (app/services/auth.py, app/schemas/auth.py)             *)
(***************************************************************************)
\* the document that holds the user list
AdminUsers == "admin_users"

\* CreateUserRequest and UpdateUserRequest after validation: validate_email
\* returns the address in lower case
CreateUserRequest(body) == [body EXCEPT !.email = Lower(@)]

UpdateUserRequest(body) == [body EXCEPT !.email = Lower(@)]

\* admin_users_doc.get() and users_data.get("users", [])
ReadAdminUsers(us) ==
    IF AdminUsers \in DOMAIN us
    THEN [exists |-> TRUE, users |-> us[AdminUsers].users]
    ELSE [exists |-> FALSE, users |-> <<>>]

\* the index of the first user of the list with this e-mail, 0 for none
IndexOfEmail(users_list, email) ==
    IF \E i \in DOMAIN users_list : users_list[i].email = email
    THEN CHOOSE i \in DOMAIN users_list :
            /\ users_list[i].email = email
            /\ \A j \in DOMAIN users_list :
                  users_list[j].email = email => i <= j
    ELSE 0

\* UserResponse(...) and UserModel(...) of a stored user
UserResponse(user) ==
    [email |-> user.email, role |-> user.role, zone |-> user.zone,
     createdDate |-> user.createdDate, lastModified |-> user.lastModified]

\* admin_users_doc.set({...})
SetAdminUsers(us, users_list, t) ==
    (AdminUsers :> [users |-> users_list, lastUpdated |-> t,
                    totalUsers |-> Len(users_list)]) @@ us

\* create_user appending without looking for the e-mail
CreateWithoutCheck(request, seen, us, t) ==
    LET new_user == [email |-> request.email, role |-> request.role,
                     zone |-> request.zone, createdDate |-> t,
                     lastModified |-> t, createdAt |-> t, updatedAt |-> t]
    IN  [value |-> UserResponse(new_user),
         users |-> SetAdminUsers(us, Append(seen.users, new_user), t)]

\* AuthService.create_user after its read returned `seen`, at time t, on
\* the users collection us as it is then
create_user(request, seen, us, t) ==
    LET new_user == [email |-> request.email, role |-> request.role,
                     zone |-> request.zone, createdDate |-> t,
                     lastModified |-> t, createdAt |-> t, updatedAt |-> t]
    IN  IF IndexOfEmail(seen.users, request.email) # 0
        THEN [value |-> None, users |-> us]
        ELSE [value |-> UserResponse(new_user),
              users |-> SetAdminUsers(us, Append(seen.users, new_user), t)]

\* AuthService.update_user after its read returned `seen`
update_user(request, seen, us, t) ==
    LET i       == IndexOfEmail(seen.users, request.email)
        updated == request.role # Null \/ request.zone # Null
        changed == [seen.users EXCEPT
                      ![i].role = IF request.role # Null THEN request.role
                                  ELSE @,
                      ![i].zone = IF request.zone # Null THEN request.zone
                                  ELSE @,
                      ![i].lastModified = t,
                      ![i].updatedAt = t]
    IN  IF ~seen.exists \/ i = 0
        THEN [value |-> None, users |-> us]
        ELSE IF updated
        THEN [value |-> UserResponse(changed[i]),
              users |-> SetAdminUsers(us, changed, t)]
        ELSE [value |-> UserResponse(seen.users[i]), users |-> us]

\* AuthService.get_user_by_email: the first document of the collection whose
\* own field email equals the address in lower case
get_user_by_email(email, us) ==
    LET docs == {k \in DOMAIN us :
                    "email" \in DOMAIN us[k] /\ us[k].email = Lower(email)}
    IN  IF docs = {} THEN None
        ELSE UserResponse(us[CHOOSE k \in docs : TRUE])

\* AuthService.list_users: one UserResponse per document of the collection
\* (the order of the stream is left out); user_data["email"] raises KeyError
\* on a document without that field
list_users(us) ==
    IF \E k \in DOMAIN us : "email" \notin DOMAIN us[k]
    THEN [exc |-> "KeyError", value |-> None]
    ELSE [exc |-> "", value |-> [items |-> {UserResponse(us[k]) : k \in DOMAIN us}]]

(***************************************************************************)
(* User calls as store calls: the read of the document, then the write     *)
(***************************************************************************)
Emails == {"a@x.io", "A@x.io", "b@x.io"}

CreateUserBodies ==
    [email : Emails, role : {"zone_admin"}, zone : {"GSEZ"}]

UpdateUserBodies ==
    [email : {"a@x.io", "b@x.io"}, role : {Null, "normal_user"},
     zone : {Null, "OSEZ"}]

\* doc_snapshot = admin_users_doc.get() of create_user
CreateUserRead(c, body) ==
    /\ calls[c].pc = "idle"
    /\ calls' = [calls EXCEPT ![c] =
                    [pc |-> "got", op |-> "create_user",
                     request |-> CreateUserRequest(body),
                     seen |-> ReadAdminUsers(users), status |-> 0,
                     value |-> None]]
    /\ UNCHANGED <<now, tz, iatChecked, authOut, resp, store, zones, walk, users>>

\* doc_snapshot = admin_users_doc.get() of update_user
UpdateUserRead(c, body) ==
    /\ calls[c].pc = "idle"
    /\ calls' = [calls EXCEPT ![c] =
                    [pc |-> "got", op |-> "update_user",
                     request |-> UpdateUserRequest(body),
                     seen |-> ReadAdminUsers(users), status |-> 0,
                     value |-> None]]
    /\ UNCHANGED <<now, tz, iatChecked, authOut, resp, store, zones, walk, users>>

\* the rest of create_user or update_user: None is answered as a conflict
\* by create and as not found by update
UserWrite(c) ==
    /\ calls[c].pc = "got"
    /\ calls[c].op \in {"create_user", "update_user"}
    /\ LET r == IF calls[c].op = "create_user"
                THEN create_user(calls[c].request, calls[c].seen, users, now)
                ELSE update_user(calls[c].request, calls[c].seen, users, now)
       IN  /\ users' = r.users
           /\ calls' = [calls EXCEPT
                          ![c].pc = "done",
                          ![c].value = r.value,
                          ![c].status =
                              IF r.value # None THEN 200
                              ELSE IF calls[c].op = "create_user" THEN 409
                              ELSE 404]
    /\ UNCHANGED <<now, tz, iatChecked, authOut, resp, store, zones, walk>>

\* a call of get_user_by_email
UserLookup(c, email) ==
    /\ calls[c].pc = "idle"
    /\ calls' = [calls EXCEPT ![c] =
                    [pc |-> "done", op |-> "get_user_by_email",
                     request |-> [email |-> email], seen |-> None,
                     status |-> 200,
                     value |-> get_user_by_email(email, users)]]
    /\ UNCHANGED <<now, tz, iatChecked, authOut, resp, store, zones, walk, users>>

\* a call of list_users
UserList(c) ==
    /\ calls[c].pc = "idle"
    /\ LET r == list_users(users)
       IN  calls' = [calls EXCEPT ![c] =
                        [pc |-> "done", op |-> "list_users",
                         request |-> None, seen |-> None,
                         status |-> IF r.exc = "" THEN 200 ELSE 500,
                         value |-> r.value]]
    /\ UNCHANGED <<now, tz, iatChecked, authOut, resp, store, zones, walk, users>>

\* user calls one after another
NextUsers ==
    \/ \E c \in Calls, body \in CreateUserBodies :
          ~InFlight /\ CreateUserRead(c, body)
    \/ \E c \in Calls, body \in UpdateUserBodies :
          ~InFlight /\ UpdateUserRead(c, body)
    \/ \E c \in Calls : UserWrite(c)
    \/ \E c \in Calls, email \in Emails : ~InFlight /\ UserLookup(c, email)
    \/ \E c \in Calls : ~InFlight /\ UserList(c)

SpecUsers == InitCalls /\ [][NextUsers]_vars

\* create and update calls handled concurrently
NextUsersRace ==
    \/ \E c \in Calls, body \in CreateUserBodies : CreateUserRead(c, body)
    \/ \E c \in Calls, body \in UpdateUserBodies : UpdateUserRead(c, body)
    \/ \E c \in Calls : UserWrite(c)

SpecUsersRace == InitCalls /\ [][NextUsersRace]_vars

(***************************************************************************)
(* Plot requests made with the tokens the issue endpoint hands out         *)
(***************************************************************************)
\* the zone_admin bodies sent to the issue endpoint, any zone string
IsolationBodies == [userId : UserIds, role : {"zone_admin"}, zone : IssueZones]

\* the tokens the endpoint issued for them at time 1, the secret presented
IssuedTokens ==
    LET replies == {create_access_token(body,
                                        Header(<<"Secret", " ", AUTH_SECRET_KEY>>),
                                        1, tz) : body \in IsolationBodies}
    IN  {reply.access_token : reply \in {r \in replies : r.status = 200}}

NextIsolation ==
    \/ \E op \in PlotOps, token \in IssuedTokens : Gate(op, token)
    \/ \E q \in ListQueries : ListPlots(q)
    \/ \E q \in DetailQueries : PlotDetails(q)
    \/ \E request \in UpdateRequests : UpdatePlot(request)
    \/ \E request \in ReleaseRequests : ReleasePlot(request)

SpecIsolation == Init /\ [][NextIsolation]_vars

(***************************************************************************)
(* Mutations followed by reads of the same partition                       *)
(***************************************************************************)
VisibleUpdateRequests ==
    [country : {"Gabon"}, zoneCode : {"GSEZ"}, phase : Phases,
     plotName : SeededPlots, plotStatus : PlotStatus,
     category : {Null}, areaInSqm : {Null}, areaInHa : {Null}]

VisibleReleaseRequests ==
    [country : {"Gabon"}, zoneCode : {"GSEZ"}, phase : Phases,
     plotName : SeededPlots, plotStatus : {"Available"}]

\* reads of the whole partition: no filter, no cursor, a page that holds
\* every document
VisibleListQueries ==
    [country : {"Gabon"}, zoneCode : {"GSEZ"}, phase : Phases,
     category : {Null}, limit : {MaxDocs + 1}, cursor : {0}, lookup : {"ok"}]

VisibleDetailQueries ==
    [country : {"Gabon"}, zoneCode : {"GSEZ"}, phase : Phases,
     limit : {MaxDocs + 1}, cursor : {0}, lookup : {"ok"}]

NextVisible ==
    \/ \E op \in PlotOps, token \in MutationTokens : Gate(op, token)
    \/ \E request \in VisibleUpdateRequests : UpdatePlot(request)
    \/ \E request \in VisibleReleaseRequests : ReleasePlot(request)
    \/ \E q \in VisibleListQueries : ListPlots(q)
    \/ \E q \in VisibleDetailQueries : PlotDetails(q)

SpecVisible == Init /\ [][NextVisible]_vars

(***************************************************************************)
(* Allocate and release as store calls: the query, then the update         *)
(***************************************************************************)
\* allocate and release bodies that name one plot, or none
RaceUpdateBodies ==
    [country : {"Gabon"}, zoneCode : {"GSEZ"}, phase : Phases,
     plotName : {"GSEZ-R-002", "missing"},
     plotStatus : {"Allocated", "Reserved"},
     category : {Null, "Industrial"}, areaInSqm : {Null}, areaInHa : {Null}]

RaceReleaseBodies ==
    [country : {"Gabon"}, zoneCode : {"GSEZ"}, phase : Phases,
     plotName : {"GSEZ-R-002"}, plotStatus : {"Available"}]

\* steps 1 to 5 of update_plot: the checks and the query, for a caller
\* without a zone pin
AllocateRead(c, body) ==
    /\ calls[c].pc = "idle"
    /\ PlotUpdateRequestValid(body)
    /\ calls' = [calls EXCEPT ![c] =
                    [pc |-> "got", op |-> "update", request |-> body,
                     seen |-> FindDocument(body, store), status |-> 0,
                     value |-> None]]
    /\ UNCHANGED <<now, tz, iatChecked, authOut, resp, store, zones, walk, users>>

\* steps 1 to 5 of release_plot
ReleaseRead(c, body) ==
    /\ calls[c].pc = "idle"
    /\ PlotReleaseRequestValid(body)
    /\ calls' = [calls EXCEPT ![c] =
                    [pc |-> "got", op |-> "release",
                     request |-> PlotReleaseRequest(body),
                     seen |-> FindDocument(body, store), status |-> 0,
                     value |-> None]]
    /\ UNCHANGED <<now, tz, iatChecked, authOut, resp, store, zones, walk, users>>

\* the rest of the operation: PlotNotFound, or the update of the document
PlotWrite(c) ==
    /\ calls[c].pc = "got"
    /\ calls[c].op \in {"update", "release"}
    /\ IF calls[c].seen.key = 0
       THEN /\ store' = store
            /\ calls' = [calls EXCEPT ![c].pc = "done", ![c].status = 404]
       ELSE /\ store' = WriteDocument(calls[c].op, calls[c].request,
                                      calls[c].seen, store, now)
            /\ calls' = [calls EXCEPT ![c].pc = "done", ![c].status = 200]
    /\ UNCHANGED <<now, tz, iatChecked, authOut, resp, zones, walk, users>>

NextMutateRace ==
    \/ \E c \in Calls, body \in RaceUpdateBodies : AllocateRead(c, body)
    \/ \E c \in Calls, body \in RaceReleaseBodies : ReleaseRead(c, body)
    \/ \E c \in Calls : PlotWrite(c)

SpecMutateRace == InitCalls /\ [][NextMutateRace]_vars

(***************************************************************************)
(* Properties of the plot service (checked under Spec)                     *)
(***************************************************************************)
EngineSteps == {"validate", "scope", "store"}

\* the last request ran into an endpoint body with the claim of its token
Handled(ops) ==
    /\ resp.stage = "done"
    /\ resp.op \in ops
    /\ resp.claim # None
    /\ resp.request # None

\* C1: a request whose token the verifier rejects is answered 401 without
\* evaluating the permission check; a request with a valid token that lacks
\* the required permission is answered 403; any other request carries the
\* full claim of its token downstream; a rejected request never reaches the
\* query or mutation engine.
C1_AuthorizationGate ==
    resp.stage \in {"gate", "done"} =>
        LET v    == verify_jwt_token(resp.token, now, iatChecked)
            need == Required[resp.op]
            has  == /\ v.tag = "Claim"
                    /\ need.resource \in Elems(v.claim.permissions[need.action])
        IN  /\ v = None =>
                  /\ resp.status = 401
                  /\ resp.steps = <<"verify">>
            /\ (v.tag = "Claim" /\ ~has) =>
                  /\ resp.status = 403
                  /\ resp.code = "FORBIDDEN"
            /\ has => resp.claim = v.claim
            /\ ~has =>
                  /\ Elems(resp.steps) \cap EngineSteps = {}
                  /\ resp.reads = {}
                  /\ resp.writes = {}
                  /\ resp.stage = "done"

C1_Witness ==
    /\ resp.stage = "done"
    /\ resp.op = "update"
    /\ resp.verify = "Claim"
    /\ resp.token.payload.role = "normal_user"
    /\ resp.status = 403
    /\ resp.steps = <<"verify", "permission">>

\* the static topology table as the specification states it
ExpectedTopology ==
    {<<"drc", "CIP">>, <<"benin", "GDIZ">>, <<"gabon", "GSEZ">>,
     <<"nigeria", "IPR">>, <<"roc", "PIC">>, <<"rwanda", "BSEZ">>,
     <<"togo", "PIA">>}

\* the (country, zoneCode) pair of the last request is in the table
InTopology == <<Lower(resp.request.country), resp.request.zoneCode>>
                  \in ExpectedTopology

\* the last request came from a zone_admin and names another zone than the
\* caller's
OutsidePin(ops) ==
    /\ Handled(ops)
    /\ resp.claim.role = "zone_admin"
    /\ resp.request.zoneCode # resp.claim.zone

C3_EveryPathPinned ==
    (/\ OutsidePin(PlotOps \cup {"create_zone"})
     /\ resp.op \in PlotOps => (InTopology /\ resp.code # "INVALID_CATEGORY")) =>
        /\ resp.status = 403
        /\ resp.code \in {"FORBIDDEN", "ACCESS_DENIED"}
        /\ resp.writes = {}

\* C4: the topology validation passes exactly when the lower-cased country
\* is a key of the table and zoneCode is its entry (case-sensitively); it
\* fails as unsupported country when the key is missing and as invalid
\* mapping when the zoneCode differs, two different failures.
C4_TopologyValidation ==
    (Handled(PlotOps) /\ "validate" \in Elems(resp.steps)) =>
        LET supported == \E e \in ExpectedTopology :
                             e[1] = Lower(resp.request.country)
        IN  /\ "scope" \in Elems(resp.steps) <=> InTopology
            /\ ~supported =>
                  /\ resp.status = 400
                  /\ resp.message = "Unsupported country"
            /\ (supported /\ ~InTopology) =>
                  /\ resp.status = 400
                  /\ resp.message = "Invalid zone code"

C4_Witness ==
    /\ Handled(PlotOps)
    /\ resp.request.country = "Gabon"
    /\ resp.request.zoneCode = "gsez"
    /\ resp.status = 400
    /\ resp.message = "Invalid zone code"

\* C5: the plot partitions a list, plot-detail, allocate or release request
\* reads or writes are of the form lowercase(country) / table entry / phase
\* for a country of the topology table, and a partition outside the table
\* is never changed.
C5_TenantBoundary ==
    /\ resp.op \in PlotOps =>
          \A p \in resp.reads \cup resp.writes :
              /\ <<p[1], p[2]>> \in ExpectedTopology
              /\ p = <<Lower(resp.request.country), p[2], resp.request.phase>>
    /\ \A p \in DOMAIN store :
          <<p[1], p[2]>> \notin ExpectedTopology =>
              store[p] = SeedStore(MaxDocs)[p]

C5_Witness ==
    /\ Handled({"update"})
    /\ resp.request.country = "Gabon"
    /\ resp.status = 200
    /\ resp.writes = {<<"gabon", "GSEZ", "phase1">>}
    /\ store[<<"gabon", "GSEZ", "phase1">>][1].details.plotStatus = "Allocated"

(***************************************************************************)
(* Store-level zone isolation (checked under SpecIsolation)                *)
(***************************************************************************)
\* C25: a request made with a token issued for role zone_admin and zone Z
\* hands the engines the scope zone Z, never an empty or null one, and reads
\* and writes no plot partition of another zone, whatever the query carries.
C25_ZoneIsolation ==
    (/\ resp.stage \in {"gate", "done"}
     /\ resp.op \in PlotOps
     /\ resp.claim # None) =>
        /\ resp.claim.role = "zone_admin"
        /\ UserZone(resp.claim) = resp.claim.zone
        /\ UserZone(resp.claim) \notin {Null, ""}
        /\ \A p \in resp.reads \cup resp.writes : p[2] = resp.claim.zone
        /\ (resp.stage = "done" /\ resp.request # None
            /\ resp.request.zoneCode # resp.claim.zone) =>
               /\ resp.status \in {400, 403, 422}
               /\ resp.reads = {} /\ resp.writes = {}

\* the zone_admin of GDIZ lists benin/GDIZ, filtered by category, and
\* reads that partition only
C25_Witness ==
    /\ Handled({"list"})
    /\ resp.claim.zone = "GDIZ"
    /\ resp.request.zoneCode = "GDIZ"
    /\ resp.request.category = "Commercial"
    /\ resp.status = 200
    /\ resp.reads = {<<"benin", "GDIZ", "phase1">>}

\* the steps the engine of the last request went through
ServiceSteps == SubSeq(resp.steps, 3, Len(resp.steps))

Unset(v) == v \in {Absent, Null, ""}

\* the status of a plot document: the one the mutations write
\* (details.plotStatus) when there is one, else the seeded one
PlotStatusOf(doc) ==
    IF doc.details.plotStatus # Absent THEN doc.details.plotStatus
    ELSE doc.plotStatus

\* the document the last allocate or release request named
TargetDoc ==
    LET path == get_plot_collection_path(resp.request.country,
                                         resp.request.zoneCode,
                                         resp.request.phase)
    IN  store[path][FindPlot(store[path], resp.request.plotName)]

\* C18: after a successful release with status Available the plot is
\* Available and companyName, activity, investmentAmount,
\* employmentGenerated, allocatedDate and expiryDate are all unset.
C18_ReleaseClears ==
    (/\ Handled({"release"})
     /\ resp.status = 200
     /\ Lower(resp.request.plotStatus) = "available") =>
        /\ Lower(PlotStatusOf(TargetDoc)) = "available"
        /\ Unset(TargetDoc.details.companyName)
        /\ Unset(TargetDoc.details.activity)
        /\ Unset(TargetDoc.investmentAmount)
        /\ Unset(TargetDoc.employmentGenerated)
        /\ Unset(TargetDoc.allocatedDate)
        /\ Unset(TargetDoc.expiryDate)

\* C19: no plot record is Available while one of companyName, sector,
\* activity, investmentAmount, employmentGenerated, allocatedDate or
\* expiryDate is set.
C19_PlotRecordInvariant ==
    \A path \in DOMAIN store : \A k \in DOMAIN store[path] :
        LET doc == store[path][k]
        IN  Lower(PlotStatusOf(doc)) = "available" =>
                /\ Unset(doc.details.companyName)
                /\ Unset(doc.sector)
                /\ Unset(doc.details.activity)
                /\ Unset(doc.investmentAmount)
                /\ Unset(doc.employmentGenerated)
                /\ Unset(doc.allocatedDate)
                /\ Unset(doc.expiryDate)

\* C20: a release request with status Occupied on an existing plot
\* succeeds and leaves the plot Occupied.
C20_ReleaseOccupied ==
    (/\ Handled({"release"})
     /\ resp.request.plotStatus = "Occupied"
     /\ resp.request.plotName \in SeededPlots
     /\ resp.claim.role # "zone_admin" \/ resp.claim.zone = "GSEZ") =>
        /\ resp.status = 200
        /\ PlotStatusOf(TargetDoc) = "Occupied"

\* the optional fields of an allocate request
OptionalFields == {"category", "areaInSqm", "areaInHa"}

\* a step in which the allocate endpoint answers the request it was
\* handed, whose body passed validation
AllocateStep ==
    /\ resp.stage = "gate"
    /\ resp'.stage = "done"
    /\ resp'.op = "update"
    /\ resp'.status # 422

\* the partition and the key of the document an allocate request names in
\* the store st (key 0 when no name matches)
TargetPath(request) ==
    get_plot_collection_path(request.country, request.zoneCode, request.phase)

TargetKey(st, request) ==
    FindPlot(Collection(st, TargetPath(request)), request.plotName)

\* what a successful allocate does to the details object of its plot
DetailsWritten(old, new, request) ==
    /\ new.plotStatus = request.plotStatus
    /\ \A f \in OptionalFields :
          new[f] = IF request[f] # Null THEN request[f] ELSE old[f]
    /\ \A f \in (DOMAIN old) \ (OptionalFields \cup {"plotStatus"}) :
          new[f] = old[f]

\* a successful allocate changes its plot as DetailsWritten says, keeps the
\* top-level fields outside `free`, and changes no other document;
\* a failing one changes nothing
AllocateFrame(free) ==
    AllocateStep =>
        LET request == resp'.request
            path    == TargetPath(request)
            k       == TargetKey(store, request)
        IN  IF k = 0
            THEN /\ resp'.status = 404
                 /\ resp'.code = "PLOT_NOT_FOUND"
                 /\ store' = store
            ELSE /\ resp'.status = 200
                 /\ DOMAIN store' = DOMAIN store
                 /\ \A q \in DOMAIN store : q # path => store'[q] = store[q]
                 /\ DOMAIN store'[path] = DOMAIN store[path]
                 /\ \A j \in DOMAIN store[path] :
                       j # k => store'[path][j] = store[path][j]
                 /\ DetailsWritten(store[path][k].details,
                                   store'[path][k].details, request)
                 /\ \A f \in (DOMAIN store[path][k]) \ ({"details"} \cup free) :
                       store'[path][k][f] = store[path][k][f]

ReportedStatus(item) ==
    IF resp.op = "list" THEN item.plotStatus ELSE item.status

\* C29: a list or plot-detail call of a partition reports every plot whose
\* status an allocate or release has set, with the status last set (letter
\* case apart).
C29_MutationsVisible ==
    (Handled({"list", "details"}) /\ resp.status = 200) =>
        LET path  == TargetPath(resp.request)
            plots == resp.body.plots
        IN  \A k \in DOMAIN store[path] :
                store[path][k].details.plotStatus # Absent =>
                    \E i \in DOMAIN plots :
                        /\ plots[i].key = k
                        /\ Lower(ReportedStatus(plots[i])) =
                              Lower(store[path][k].details.plotStatus)

(***************************************************************************)
(* Concurrent allocate and release (checked under SpecMutateRace)          *)
(***************************************************************************)
\* the whole operation of call c run without interruption on the store st
Uninterrupted(c, st) ==
    IF calls[c].op = "update"
    THEN update_plot(calls[c].request, Null, st, now)
    ELSE release_plot(calls[c].request, Null, st, now)

\* the step in which call c updates its plot or fails
PlotWriteStep(c) ==
    /\ calls[c].pc = "got"
    /\ calls[c].op \in {"update", "release"}
    /\ calls'[c].pc = "done"

\* C27: in every interleaving, the write of a call leaves the store as the
\* whole call would, run on its own at that moment, and answers as it
\* would: the final document is the one the calls produce one after another
\* in the order of their writes.
C27_LastWriteWins ==
    [][\A c \in Calls : PlotWriteStep(c) =>
          /\ store' = Uninterrupted(c, store).store
          /\ calls'[c].status = WriteStatus(Uninterrupted(c, store)).status]_vars

\* an allocate with a category and a release both read the seeded plot
\* before either wrote; the allocate wrote first, the release last
C27_Witness ==
    \E c, d \in Calls :
        /\ calls[c].pc = "done" /\ calls[d].pc = "done"
        /\ calls[c].op = "update" /\ calls[d].op = "release"
        /\ calls[c].request.category = "Industrial"
        /\ calls[c].seen.data = GsezPlot(2)
        /\ calls[d].seen.data = GsezPlot(2)
        /\ store[<<"gabon", "GSEZ", "phase1">>][2].details.category = "Industrial"
        /\ store[<<"gabon", "GSEZ", "phase1">>][2].details.plotStatus = "available"

(***************************************************************************)
(* Properties of the zone registry (SpecRegister, SpecRegisterRace)        *)
(***************************************************************************)
\* the key of the zone a call registers
CallKey(c) ==
    ZoneDocumentId(calls[c].request.country, calls[c].request.zoneCode)

\* the step in which register call c writes or fails
RegisterSetStep(c) ==
    /\ calls[c].pc = "got"
    /\ calls[c].op = "register"
    /\ calls'[c].pc = "done"

\* no zone entry is modified or removed
ZonesKept ==
    \A id \in DOMAIN zones : id \in DOMAIN zones' /\ zones'[id] = zones[id]

C28_OneWinner ==
    \A c, d \in Calls :
        (/\ c # d
         /\ calls[c].pc = "done" /\ calls[d].pc = "done"
         /\ CallKey(c) = CallKey(d)
         /\ calls[c].status = 200) =>
            /\ calls[d].status = 409
            /\ zones[CallKey(c)].landArea = calls[c].request.landArea

(***************************************************************************)
(* Properties of user management (SpecUsers, SpecUsersRace)                *)
(***************************************************************************)
\* the stored user list
StoredUsers(us) == ReadAdminUsers(us).users

\* no two users of a list share an e-mail
UniqueEmails(users_list) ==
    \A i, j \in DOMAIN users_list :
        users_list[i].email = users_list[j].email => i = j

\* the step in which call c of create_user writes or answers None
CreateUserStep(c) ==
    /\ calls[c].pc = "got"
    /\ calls[c].op = "create_user"
    /\ calls'[c].pc = "done"

\* C23: create_user with an e-mail of the stored list returns None and
\* leaves the list unchanged, with a new e-mail it appends the user; after
\* every step of sequential create_user and update_user calls the stored
\* list has no two users with the same e-mail.
C23_EmailUnique ==
    [][/\ UniqueEmails(StoredUsers(users'))
       /\ \A c \in Calls : CreateUserStep(c) =>
             IF \E i \in DOMAIN StoredUsers(users) :
                   StoredUsers(users)[i].email = calls[c].request.email
             THEN /\ calls'[c].value = None
                  /\ users' = users
             ELSE /\ calls'[c].value # None
                  /\ Len(StoredUsers(users')) = Len(StoredUsers(users)) + 1]_vars

\* a@x.io was created, and a second create_user, written A@x.io, was
\* answered None while the list keeps one user
C23_Witness ==
    \E c, d \in Calls :
        /\ calls[c].pc = "done" /\ calls[d].pc = "done"
        /\ calls[c].op = "create_user" /\ calls[d].op = "create_user"
        /\ calls[c].status = 200 /\ calls[d].status = 409
        /\ calls[c].request.email = calls[d].request.email
        /\ Len(StoredUsers(users)) = 1

\* the step in which call c runs the read operation op
ReadStep(c, op) ==
    /\ calls[c].pc = "idle"
    /\ calls'[c].pc = "done"
    /\ calls'[c].op = op

\* C24: get_user_by_email returns the created user of that e-mail, written
\* in any letter case, and None for an e-mail never created; list_users
\* returns exactly the users created so far.
C24_ReadsSeeCreatedUsers ==
    [][\A c \in Calls :
          /\ ReadStep(c, "get_user_by_email") =>
                LET i == IndexOfEmail(StoredUsers(users),
                                      Lower(calls'[c].request.email))
                IN  IF i = 0 THEN calls'[c].value = None
                    ELSE calls'[c].value = UserResponse(StoredUsers(users)[i])
          /\ ReadStep(c, "list_users") =>
                /\ calls'[c].status = 200
                /\ calls'[c].value =
                      [items |-> {UserResponse(StoredUsers(users)[i]) :
                                     i \in DOMAIN StoredUsers(users)}]]_vars

\* C30: when every concurrent call has finished, every create_user that
\* succeeded is in the stored list, every update_user that succeeded is
\* reflected, the list has no duplicate e-mail and totalUsers is its length.
C30_NoLostUpdate ==
    (/\ \A c \in Calls : calls[c].pc \in {"idle", "done"}
     /\ \A c, d \in Calls :
           (c # d /\ calls[c].pc = "done" /\ calls[d].pc = "done") =>
               calls[c].request.email # calls[d].request.email) =>
        /\ \A c \in Calls :
              (calls[c].pc = "done" /\ calls[c].status = 200) =>
                  LET i == IndexOfEmail(StoredUsers(users),
                                        calls[c].request.email)
                  IN  /\ i # 0
                      /\ StoredUsers(users)[i].role = calls[c].value.role
                      /\ StoredUsers(users)[i].zone = calls[c].value.zone
        /\ UniqueEmails(StoredUsers(users))
        /\ AdminUsers \in DOMAIN users =>
              users[AdminUsers].totalUsers = Len(StoredUsers(users))

(***************************************************************************)
(* Properties of pagination (checked under SpecPage and SpecWalk)          *)
(***************************************************************************)
\* the last request was a list or plot-detail call that returned a page
PageReturned(ops) ==
    /\ resp.stage = "done"
    /\ resp.op \in ops
    /\ resp.status = 200

\* the keys of the returned plots, in the order returned
ReturnedKeys == [i \in DOMAIN resp.body.plots |-> resp.body.plots[i].key]

\* the cursor of the last request names a document of the partition and its
\* lookup succeeded
CursorResolves ==
    /\ resp.request.cursor \in DOMAIN store[PagePath]
    /\ resp.request.lookup = "ok"

\* the keys of the partition the query of the last request ranges over
KeysAfterCursor ==
    {k \in DOMAIN store[PagePath] : CursorResolves => k > resp.request.cursor}

\* the first limit of those keys
ExpectedPageKeys ==
    {k \in KeysAfterCursor :
        Cardinality({j \in KeysAfterCursor : j < k}) < resp.request.limit}

\* the list operation shows a document: it has a category and status of
\* the enums and passes the category filter
Listed(doc, category) ==
    /\ doc.plotStatus \in PlotStatus
    /\ doc.category \in PlotCategory
    /\ category # Null => doc.category = category

\* C13: a list or plot-detail call with limit L ranges over the keys
\* strictly after the cursor in key order; hasNextPage is true exactly when
\* L+1 records could be fetched; the page is the first L of them;
\* nextCursor is the key of the last record of the page when hasNextPage is
\* true and absent otherwise.
C13_PageConstruction ==
    PageReturned({"list", "details"}) =>
        LET pg == resp.body.pagination
            L  == resp.request.limit
        IN  /\ pg.limit = L
            /\ pg.hasNextPage <=> Cardinality(KeysAfterCursor) >= L + 1
            /\ Cardinality(ExpectedPageKeys) <= L
            /\ \A i, j \in DOMAIN ReturnedKeys :
                  i < j => ReturnedKeys[i] < ReturnedKeys[j]
            /\ resp.op = "details" => Elems(ReturnedKeys) = ExpectedPageKeys
            /\ resp.op = "list" =>
                  Elems(ReturnedKeys) =
                      {k \in ExpectedPageKeys :
                          Listed(store[PagePath][k], resp.request.category)}
            /\ pg.hasNextPage =>
                  /\ pg.nextCursor \in ExpectedPageKeys
                  /\ \A k \in ExpectedPageKeys : k <= pg.nextCursor
            /\ ~pg.hasNextPage => pg.nextCursor = 0

C13_Witness ==
    /\ PageReturned({"list"})
    /\ resp.request.limit = 2
    /\ resp.request.cursor = 1
    /\ CursorResolves
    /\ ReturnedKeys = <<2, 3>>
    /\ resp.body.pagination.hasNextPage
    /\ resp.body.pagination.nextCursor = 3

\* the concatenation of the pages of the walk
RECURSIVE WalkKeys(_)
WalkKeys(pages) ==
    IF pages = <<>> THEN <<>>
    ELSE pages[1].keys \o WalkKeys(Tail(pages))

\* C14: a walk from no cursor that follows nextCursor until hasNextPage is
\* false returns every record of the partition that matches the category
\* filter exactly once.
C14_PaginationComplete ==
    (walk.active /\ walk.done) =>
        WalkKeys(walk.pages) =
            SortedSeq({k \in DOMAIN store[PagePath] :
                          walk.category # Null =>
                              store[PagePath][k].category = walk.category})

\* the walk of scenario B: five records, none filtered out, limit 2
ScenarioB ==
    /\ store = PageStore(1 .. 5, "clean")
    /\ walk.active
    /\ walk.category = Null
    /\ walk.limit = 2

\* C15 as stated: in scenario B the first page has 2 records, hasNextPage
\* true and the 3rd record's key as nextCursor.
C15_CursorIsThirdKey ==
    (ScenarioB /\ Len(walk.pages) >= 1) =>
        /\ walk.pages[1].keys = <<1, 2>>
        /\ walk.pages[1].hasNextPage
        /\ walk.pages[1].nextCursor = 3

\* C15: in scenario B the first page has the first 2 records, hasNextPage
\* true and the 2nd record's key as nextCursor; the call with that cursor
\* returns the next 2 records with hasNextPage true; the third call returns
\* the last record with hasNextPage false and no nextCursor.
C15_ScenarioB ==
    ScenarioB =>
        LET expected ==
               <<[cursor |-> 0, keys |-> <<1, 2>>, hasNextPage |-> TRUE,
                  nextCursor |-> 2, totalReturned |-> 2],
                 [cursor |-> 2, keys |-> <<3, 4>>, hasNextPage |-> TRUE,
                  nextCursor |-> 4, totalReturned |-> 2],
                 [cursor |-> 4, keys |-> <<5>>, hasNextPage |-> FALSE,
                  nextCursor |-> 0, totalReturned |-> 1]>>
        IN  /\ Len(walk.pages) <= 3
            /\ \A i \in DOMAIN walk.pages : walk.pages[i] = expected[i]
            /\ walk.done <=> Len(walk.pages) = 3

C15_Witness ==
    /\ ScenarioB
    /\ walk.done
    /\ Len(walk.pages) = 3
    /\ walk.pages[3].keys = <<5>>

\* C16: totalReturned is the number of plots of the page, and a page with
\* hasNextPage true holds limit plots, with or without a category filter.
C16_MetadataConsistent ==
    PageReturned({"list", "details"}) =>
        /\ resp.body.pagination.totalReturned = Len(resp.body.plots)
        /\ resp.body.pagination.hasNextPage =>
              resp.body.pagination.totalReturned = resp.request.limit

\* C17: a list or plot-detail call whose cursor does not resolve (no such
\* document, or the lookup fails) is answered like the same call without a
\* cursor, never with an error.
C17_UnresolvableCursor ==
    (/\ resp.stage = "done"
     /\ resp.op \in {"list", "details"}
     /\ resp.request # None
     /\ resp.request.cursor # 0
     /\ ~CursorResolves) =>
        LET q0 == [resp.request EXCEPT !.cursor = 0]
            r0 == IF resp.op = "list"
                  THEN get_available_plots(q0, UserZone(resp.claim),
                                           resp.claim.role = "zone_admin",
                                           store)
                  ELSE get_plot_details(q0, UserZone(resp.claim), store)
        IN  /\ resp.status = 200
            /\ resp.body = r0.body

C17_Witness ==
    /\ PageReturned({"list"})
    /\ resp.request.cursor = 2
    /\ resp.request.lookup = "error"
    /\ 2 \in DOMAIN store[PagePath]
    /\ ReturnedKeys = <<1, 2, 3>>

(***************************************************************************)
(* Properties of the token issue endpoint (checked under SpecIssue)        *)
(***************************************************************************)
\* the endpoint answered with a token
Issued ==
    /\ authOut.op = "token"
    /\ authOut.reply.status = 200
    /\ authOut.reply.access_token # None

\* the header is a scheme word, one blank and the configured secret
SecretHeader(schemes) ==
    /\ authOut.authorization.present
    /\ Len(authOut.authorization.atoms) = 3
    /\ authOut.authorization.atoms[1] \in schemes
    /\ authOut.authorization.atoms[2] = " "
    /\ authOut.authorization.atoms[3] = AUTH_SECRET_KEY

VALID_ZONES == {"GSEZ", "OSEZ", "GABON", "TEST"}

InOwnWindow ==
    /\ authOut.base.payload.iat <= authOut.at
    /\ authOut.at < authOut.base.payload.exp

\* C6: issue/verify round trip: a token issued for (userId, role, zone) and
\* verified inside the validity window it carries yields a claim with that
\* userId, role and zone and with exactly the permissions of the role.
C6_RoundTrip ==
    (authOut.op = "verify" /\ authOut.kind = "genuine" /\ InOwnWindow) =>
        /\ authOut.result.tag = "Claim"
        /\ authOut.result.claim.userId = authOut.request.userId
        /\ authOut.result.claim.role = authOut.request.role
        /\ authOut.result.claim.zone = authOut.request.zone
        /\ authOut.result.claim.permissions =
               get_permissions_for_role(authOut.request.role)

C6_Witness ==
    /\ authOut.op = "verify"
    /\ authOut.kind = "genuine"
    /\ InOwnWindow
    /\ authOut.request.role = "zone_admin"
    /\ authOut.result.tag = "Claim"
    /\ Elems(authOut.result.claim.permissions.write) = {"plots", "zones"}

\* the permission table as the specification states it, as sets
ExpectedPermissions(role) ==
    CASE role = "super_admin" -> [read  |-> {"plots", "zones", "users"},
                                  write |-> {"plots", "zones", "users"}]
      [] role = "zone_admin"  -> [read  |-> {"plots", "zones"},
                                  write |-> {"plots", "zones"}]
      [] role = "normal_user" -> [read  |-> {"plots", "zones"},
                                  write |-> {}]
      [] OTHER                -> [read |-> {}, write |-> {}]

\* C7: permissions_for(role) is the fixed table for the three roles and the
\* empty permission set for every other role string.
C7_PermissionTable ==
    authOut.op = "permissions" =>
        /\ Elems(authOut.result.read) = ExpectedPermissions(authOut.role).read
        /\ Elems(authOut.result.write) = ExpectedPermissions(authOut.role).write

C7_Witness ==
    /\ authOut.op = "permissions"
    /\ authOut.role \notin UserRole
    /\ authOut.result.read = <<>>
    /\ authOut.result.write = <<>>

\* C8: a token issued at t carries issuedAt = t and expiresAt = t + 24h
\* (86400 s, the reported expires_in); it verifies at every instant before
\* t + 24h and is invalid at every instant after t + 24h.
C8_ValidityWindow ==
    /\ authOut.op = "issue" =>
          /\ authOut.expires_in = 86400
          /\ authOut.access_token.payload.iat = authOut.at
          /\ authOut.access_token.payload.exp = authOut.at + authOut.expires_in
    /\ (authOut.op = "verify" /\ authOut.kind = "genuine") =>
          /\ authOut.at < authOut.issuedAt + 86400 =>
                authOut.result.tag = "Claim"
          /\ authOut.at > authOut.issuedAt + 86400 =>
                authOut.result = None

\* C9 as stated: flipping any bit of the signature segment, or altering the
\* payload under the original signature, makes verify fail, so that a claim
\* is returned only for a token exactly as the issuer produced it.
C9_AnySignatureBit ==
    authOut.op = "verify" =>
        /\ authOut.kind = "sigbit" => authOut.result = None
        /\ (/\ authOut.token.payload # authOut.base.payload
            /\ authOut.token.sig = authOut.base.sig) =>
              authOut.result = None
        /\ authOut.result.tag = "Claim" => authOut.token = authOut.base

\* C9: flipping any bit of the signature value (the MAC carried by the
\* signature segment), or altering the payload under the original signature,
\* makes verify fail; a claim is returned only for a token whose header,
\* payload and decoded signature are those the issuer produced.
C9_TamperRejection ==
    authOut.op = "verify" =>
        /\ (authOut.kind = "sigbit" /\ authOut.bit <= MacBits) =>
              authOut.result = None
        /\ (/\ authOut.token.payload # authOut.base.payload
            /\ authOut.token.sig = authOut.base.sig) =>
              authOut.result = None
        /\ authOut.result.tag = "Claim" =>
              /\ authOut.token.header = authOut.base.header
              /\ authOut.token.payload = authOut.base.payload
              /\ DecodeSig(authOut.token.sig) = DecodeSig(authOut.base.sig)

C9_Witness ==
    /\ authOut.op = "verify"
    /\ authOut.kind = "sigbit"
    /\ authOut.bit <= MacBits
    /\ InOwnWindow
    /\ authOut.token.payload = authOut.base.payload
    /\ authOut.result = None

\* C10: verify is total: every presented token yields None or a complete
\* claim, and verify never raises.
C10_VerifyTotal ==
    authOut.op = "verify" =>
        \/ authOut.result = None
        \/ /\ authOut.result.tag = "Claim"
           /\ DOMAIN authOut.result.claim = JWTPayloadFields

====
